---- MODULE Spec2Model ----
(***************************************************************************)
(* A model of mailbot3000: the provider facade (EmailInterface), the two   *)
(* action executors (EmailActions for Microsoft Graph, GmailActions), the  *)
(* two fetchers, the LLM classifier, the clean command, the settings, the  *)
(* heuristic processor and the extraction of a Gmail message body.         *)
(*                                                                         *)
(* Python values are encoded as strings: "True", "False", "None", a folder *)
(* id.  HTTP status codes are the strings "200", "201", ...; "exc" is a    *)
(* transport exception (requests.exceptions.RequestException for Graph, a  *)
(* non-HttpError exception for Gmail).                                     *)
(***************************************************************************)
EXTENDS Integers, Sequences, FiniteSets, TLC

VARIABLES
    settings,        \* src/config/settings.py: the Settings singleton
    pc,              \* position of the running command
    call,            \* the action-executor call in progress / just returned
    bulk,            \* locals of bulk_delete / bulk_move
    folders,         \* provider side: names of the existing folders / labels
    createdOk,       \* names for which create_folder already returned success
    actionsService,  \* GmailActions.service is cached (not None)
    mutated,         \* a mutating provider request has been issued in this run
    mailbox,         \* provider side: ids of the messages the query matches, newest first
    fetcherService,  \* GmailFetcher.service is cached (not None)
    fetch,           \* locals and result of fetch_emails
    llm,             \* EmailClassifier.provider.name, the active backend
    cls,             \* locals and result of classify_email / classify_emails_batch
    clean,           \* options and locals of the clean command
    iface,           \* the EmailInterface object under construction / constructed
    classifier,      \* the EmailClassifier object under construction / constructed
    proc,            \* the EmailProcessor call in progress / just returned
    env,             \* the environment (and .env file) the settings were read from
    validation,      \* the validate_* call of Settings in progress / just returned
    message          \* the Gmail message whose body is being extracted

actVars == <<call, bulk, folders, createdOk, actionsService, mutated>>
fetchVars == <<mailbox, fetcherService, fetch>>
clsVars == <<llm, cls>>
objVars == <<iface, classifier, proc, env, validation, message>>

vars == <<settings, pc, call, bulk, folders, createdOk, actionsService, mutated,
          mailbox, fetcherService, fetch, llm, cls, clean, iface, classifier, proc,
          env, validation, message>>

(***************************************************************************)
(* Bounds of the model.                                                    *)
(***************************************************************************)
MaxIds == 2          \* longest id list handed to a bulk operation
MaxMailbox == 4      \* most messages the provider holds for the query
MaxLimit == 3        \* largest limit handed to fetch_emails
MaxRespLen == 3      \* longest LLM response, in tokens
MaxEmails == 2       \* longest list handed to classify_emails_batch
MaxTextEmails == 1   \* longest list handed to categorize_by_content
MaxPatternEmails == 2 \* longest list handed to detect_promotional_patterns
MaxDatedEmails == 2  \* longest list handed to get_bulk_delete_candidates
MaxAge == 2          \* oldest email, and largest days_old, in days
MaxSenderCount == 2  \* largest min_sender_count
MaxAddressLen == 3   \* longest string handed to _extract_domain, in tokens
MaxParts == 2        \* longest parts list of a multipart container
MaxBatch == 2        \* largest batch_size

(***************************************************************************)
(* Small universes the inputs are drawn from.                              *)
(***************************************************************************)
MsgIds == <<"e1", "e2", "e3", "e4", "e5", "e6">>
EmailIds == {"e1", "e2", "e3"}
FolderNames == {"Promo", "News"}
Providers == {"gmail", "outlook"}
AuthOutcomes == {"ok", "fail"}
\* what the provider answers to one request
Resps == {"200", "201", "204", "404", "500", "exc"}
\* provider faults on a create request; "none": the provider answers normally
Faults == {"none", "500", "exc"}

IdLists == UNION {[1..n -> EmailIds] : n \in 0..MaxIds}

SeqToSet(s) == {s[k] : k \in 1..Len(s)}

Min(a, b) == IF a <= b THEN a ELSE b

Truthy(v) == v \notin {"False", "None"}

PyBool(b) == IF b THEN "True" ELSE "False"

(***************************************************************************)
(* Provider requests.                                                      *)
(***************************************************************************)
Req(op, id, dest) == [op |-> op, id |-> id, dest |-> dest]

MutatingOps == {"graph.messages.delete", "graph.messages.move", "graph.messages.patch",
                "graph.mailfolders.create",
                "gmail.messages.delete", "gmail.messages.trash", "gmail.messages.modify",
                "gmail.labels.create"}

HasMutation(reqs) == \E k \in 1..Len(reqs) : reqs[k].op \in MutatingOps

\* the outcome of one executor method: its return value, whether an exception
\* left it, the requests it issued, and GmailActions.service afterwards
Outcome(ret, raised, reqs, svc) == [ret |-> ret, raised |-> raised, reqs |-> reqs, svc |-> svc]

(***************************************************************************)
(* MicrosoftAuthenticator.get_auth_headers: raises when no token is        *)
(* obtained.                                                               *)
(***************************************************************************)
get_auth_headers(auth) ==
    [raised |-> auth = "fail", reqs |-> <<Req("graph.token", "", "")>>]

(***************************************************************************)
(* GmailActions._get_service / GmailAuthenticator.get_service: the service *)
(* is built once and cached; get_service raises when authentication fails. *)
(***************************************************************************)
get_service(svc, auth) ==
    IF svc THEN [raised |-> FALSE, reqs |-> <<>>, svc |-> TRUE]
    ELSE [raised |-> auth = "fail", reqs |-> <<Req("gmail.build", "", "")>>,
          svc |-> auth = "ok"]

(***************************************************************************)
(* EmailActions (Microsoft Graph), src/actions/email_actions.py            *)
(***************************************************************************)
\* a delete_email that consults settings.dry_run only after the request went out
EmailActions_delete_email_late(dry, email_id, permanent, auth, resp) ==
    LET h == get_auth_headers(auth)
        req == IF permanent THEN Req("graph.messages.delete", email_id, "")
               ELSE Req("graph.messages.move", email_id, "deleteditems")
    IN  IF h.raised THEN Outcome("None", TRUE, h.reqs, FALSE)
        ELSE IF dry THEN Outcome("True", FALSE, h.reqs \o <<req>>, FALSE)
        ELSE IF resp = "exc" THEN Outcome("False", FALSE, h.reqs \o <<req>>, FALSE)
        ELSE Outcome(PyBool(resp \in {"200", "202", "204"}), FALSE,
                     h.reqs \o <<req>>, FALSE)

EmailActions_delete_email(dry, email_id, permanent, auth, resp) ==
    IF dry THEN Outcome("True", FALSE, <<>>, FALSE)
    ELSE LET h == get_auth_headers(auth)
             req == IF permanent THEN Req("graph.messages.delete", email_id, "")
                    ELSE Req("graph.messages.move", email_id, "deleteditems")
         IN  IF h.raised THEN Outcome("None", TRUE, h.reqs, FALSE)
             ELSE IF resp = "exc" THEN Outcome("False", FALSE, h.reqs \o <<req>>, FALSE)
             ELSE Outcome(PyBool(resp \in {"200", "202", "204"}), FALSE,
                          h.reqs \o <<req>>, FALSE)

EmailActions_move_email(dry, email_id, folder_id, auth, resp) ==
    IF dry THEN Outcome("True", FALSE, <<>>, FALSE)
    ELSE LET h == get_auth_headers(auth)
             req == Req("graph.messages.move", email_id, folder_id)
         IN  IF h.raised THEN Outcome("None", TRUE, h.reqs, FALSE)
             ELSE IF resp = "exc" THEN Outcome("False", FALSE, h.reqs \o <<req>>, FALSE)
             ELSE Outcome(PyBool(resp \in {"200", "201", "202"}), FALSE,
                          h.reqs \o <<req>>, FALSE)

EmailActions_create_folder(dry, folder_name, auth, resp) ==
    IF dry THEN Outcome("dry_run_folder_id", FALSE, <<>>, FALSE)
    ELSE LET h == get_auth_headers(auth)
             req == Req("graph.mailfolders.create", "", folder_name)
         IN  IF h.raised THEN Outcome("None", TRUE, h.reqs, FALSE)
             ELSE IF resp = "exc" THEN Outcome("None", FALSE, h.reqs \o <<req>>, FALSE)
             ELSE IF resp \in {"200", "201"}
                  THEN Outcome("folder_id", FALSE, h.reqs \o <<req>>, FALSE)
                  ELSE Outcome("None", FALSE, h.reqs \o <<req>>, FALSE)

EmailActions_mark_as_read(dry, email_id, auth, resp) ==
    IF dry THEN Outcome("True", FALSE, <<>>, FALSE)
    ELSE LET h == get_auth_headers(auth)
             req == Req("graph.messages.patch", email_id, "")
         IN  IF h.raised THEN Outcome("None", TRUE, h.reqs, FALSE)
             ELSE IF resp = "exc" THEN Outcome("False", FALSE, h.reqs \o <<req>>, FALSE)
             ELSE Outcome(PyBool(resp \in {"200", "202"}), FALSE,
                          h.reqs \o <<req>>, FALSE)

(***************************************************************************)
(* GmailActions, src/actions/gmail_actions.py.  execute() returns on a 2xx *)
(* answer, raises HttpError on any other status and another exception on a *)
(* transport failure.                                                      *)
(***************************************************************************)
GmailOk(resp) == resp \in {"200", "201", "204"}

GmailActions_delete_email_purging(dry, svc, email_id, permanent, auth, resp) ==
    IF dry THEN Outcome("True", FALSE, <<>>, svc)
    ELSE LET g == get_service(svc, auth)
             req == Req("gmail.messages.delete", email_id, "")
         IN  IF g.raised THEN Outcome("None", TRUE, g.reqs, g.svc)
             ELSE Outcome(PyBool(GmailOk(resp)), FALSE, g.reqs \o <<req>>, g.svc)

GmailActions_delete_email(dry, svc, email_id, permanent, auth, resp) ==
    IF dry THEN Outcome("True", FALSE, <<>>, svc)
    ELSE LET g == get_service(svc, auth)
             req == IF permanent THEN Req("gmail.messages.delete", email_id, "")
                    ELSE Req("gmail.messages.trash", email_id, "")
         IN  IF g.raised THEN Outcome("None", TRUE, g.reqs, g.svc)
             ELSE Outcome(PyBool(GmailOk(resp)), FALSE, g.reqs \o <<req>>, g.svc)

\* _get_label_id: lists the labels; None when the list request fails or no label
\* carries the name
get_label_id(label_name, labels, listOk) ==
    [id |-> IF listOk /\ label_name \in labels THEN label_name ELSE "None",
     reqs |-> <<Req("gmail.labels.list", "", "")>>]

GmailActions_move_email(dry, svc, email_id, label_name, auth, resp, labels, listOk) ==
    IF dry THEN Outcome("True", FALSE, <<>>, svc)
    ELSE LET g == get_service(svc, auth)
             l == get_label_id(label_name, labels, listOk)
             req == Req("gmail.messages.modify", email_id, label_name)
         IN  IF g.raised THEN Outcome("None", TRUE, g.reqs, g.svc)
             ELSE IF l.id = "None" THEN Outcome("False", FALSE, g.reqs \o l.reqs, g.svc)
             ELSE Outcome(PyBool(GmailOk(resp)), FALSE, g.reqs \o l.reqs \o <<req>>, g.svc)

GmailActions_create_label(dry, svc, label_name, auth, resp) ==
    IF dry THEN Outcome("True", FALSE, <<>>, svc)
    ELSE LET g == get_service(svc, auth)
             req == Req("gmail.labels.create", "", label_name)
         IN  IF g.raised THEN Outcome("None", TRUE, g.reqs, g.svc)
             ELSE IF GmailOk(resp) THEN Outcome("True", FALSE, g.reqs \o <<req>>, g.svc)
             ELSE IF resp = "409" THEN Outcome("True", FALSE, g.reqs \o <<req>>, g.svc)
             ELSE Outcome("False", FALSE, g.reqs \o <<req>>, g.svc)

GmailActions_mark_as_read(dry, svc, email_id, auth, resp) ==
    IF dry THEN Outcome("True", FALSE, <<>>, svc)
    ELSE LET g == get_service(svc, auth)
             req == Req("gmail.messages.modify", email_id, "UNREAD")
         IN  IF g.raised THEN Outcome("None", TRUE, g.reqs, g.svc)
             ELSE Outcome(PyBool(GmailOk(resp)), FALSE, g.reqs \o <<req>>, g.svc)

(***************************************************************************)
(* EmailInterface, src/email/email_interface.py: every method delegates to *)
(* the executor of the configured provider.                                *)
(***************************************************************************)
EmailInterface_delete_email(s, svc, email_id, permanent, auth, resp) ==
    IF s.email_provider = "gmail"
    THEN GmailActions_delete_email(s.dry_run, svc, email_id, permanent, auth, resp)
    ELSE [EmailActions_delete_email(s.dry_run, email_id, permanent, auth, resp)
            EXCEPT !.svc = svc]

EmailInterface_move_email(s, svc, email_id, folder, auth, resp, labels, listOk) ==
    IF s.email_provider = "gmail"
    THEN GmailActions_move_email(s.dry_run, svc, email_id, folder, auth, resp, labels, listOk)
    ELSE [EmailActions_move_email(s.dry_run, email_id, folder, auth, resp)
            EXCEPT !.svc = svc]

EmailInterface_mark_as_read(s, svc, email_id, auth, resp) ==
    IF s.email_provider = "gmail"
    THEN GmailActions_mark_as_read(s.dry_run, svc, email_id, auth, resp)
    ELSE [EmailActions_mark_as_read(s.dry_run, email_id, auth, resp)
            EXCEPT !.svc = svc]

EmailInterface_create_folder(s, svc, folder_name, auth, resp) ==
    IF s.email_provider = "gmail"
    THEN GmailActions_create_label(s.dry_run, svc, folder_name, auth, resp)
    ELSE IF s.email_provider = "outlook"
    THEN [EmailActions_create_folder(s.dry_run, folder_name, auth, resp)
            EXCEPT !.svc = svc]
    ELSE Outcome("False", FALSE, <<>>, svc)

(***************************************************************************)
(* The provider's answer to a create request: both Gmail (labels.create)   *)
(* and Graph (childfolders) answer 409 when the name already exists.       *)
(***************************************************************************)
CreateResp(existing, name, fault) ==
    IF fault # "none" THEN fault
    ELSE IF name \in existing THEN "409" ELSE "201"

(***************************************************************************)
(* The classifier, src/llm/classifier.py.                                  *)
(*                                                                         *)
(* An LLM response is a sequence of tokens: the characters "{", "}", "[",  *)
(* "]" and ",", a prose word "w", a JSON scalar "n" (a number, null), and  *)
(* complete JSON objects with scalar members, one token each (Obj).  The   *)
(* text of an object token starts with "{", ends with "}" and holds no     *)
(* other brace or bracket.                                                 *)
(***************************************************************************)
LlmNames == {"ollama", "groq", "gemini", "openai", "anthropic"}

\* member values of the object tokens; "absent": the key is missing;
\* confidence in tenths, -1 when the key is missing
Obj == [oJ1  |-> [category |-> "JUNK", confidence |-> 9, email_id |-> "e1",
                  suggested_action |-> "delete"],
        oJ9  |-> [category |-> "JUNK", confidence |-> 9, email_id |-> "e9",
                  suggested_action |-> "delete"],
        oLow |-> [category |-> "JUNK", confidence |-> 5, email_id |-> "absent",
                  suggested_action |-> "keep_inbox"],
        oX   |-> [category |-> "SPAM", confidence |-> 9, email_id |-> "absent",
                  suggested_action |-> "archive"]]

ObjTokens == DOMAIN Obj

EmptyObj == [category |-> "absent", confidence |-> -1, email_id |-> "absent",
             suggested_action |-> "absent"]

Tokens == {"{", "}", "[", "]", ",", "w", "n"} \cup ObjTokens

Responses == UNION {[1..n -> Tokens] : n \in 0..MaxRespLen}

\* LLMProvider.call_llm of every backend: an exception of the API call is caught
\* and "" is returned
call_llm(threw, text) == IF threw THEN <<>> ELSE text

SetMin(S) == CHOOSE x \in S : \A y \in S : x <= y
SetMax(S) == CHOOSE x \in S : \A y \in S : x >= y

\* re.search(r'\{.*\}', response, re.DOTALL): from the first "{" to the last "}"
search_object(response) ==
    LET opens == {k \in 1..Len(response) : response[k] = "{" \/ response[k] \in ObjTokens}
    IN  IF opens = {} THEN [found |-> FALSE, text |-> <<>>]
        ELSE LET i == SetMin(opens)
                 closes == {k \in i..Len(response) :
                               \/ response[k] \in ObjTokens
                               \/ response[k] = "}" /\ k > i}
             IN  IF closes = {} THEN [found |-> FALSE, text |-> <<>>]
                 ELSE [found |-> TRUE, text |-> SubSeq(response, i, SetMax(closes))]

\* re.search(r'\[.*\]', response, re.DOTALL): from the first "[" to the last "]"
search_array(response) ==
    LET opens == {k \in 1..Len(response) : response[k] = "["}
    IN  IF opens = {} THEN [found |-> FALSE, text |-> <<>>]
        ELSE LET i == SetMin(opens)
                 closes == {k \in (i + 1)..Len(response) : response[k] = "]"}
             IN  IF closes = {} THEN [found |-> FALSE, text |-> <<>>]
                 ELSE [found |-> TRUE, text |-> SubSeq(response, i, SetMax(closes))]

\* json.loads: a recursive-descent parse of the tokens from position i.
\* kind: "dict" (obj: its members), "list" (elems: its top-level elements) or
\* "scalar"; next: the position after the value.
JsonFail == [ok |-> FALSE, kind |-> "none", obj |-> EmptyObj, elems |-> <<>>, next |-> 0]

RECURSIVE json_value(_, _), json_elements(_, _, _)

json_value(t, i) ==
    IF i > Len(t) THEN JsonFail
    ELSE IF t[i] \in ObjTokens
         THEN [ok |-> TRUE, kind |-> "dict", obj |-> Obj[t[i]], elems |-> <<>>, next |-> i + 1]
    ELSE IF t[i] = "n"
         THEN [ok |-> TRUE, kind |-> "scalar", obj |-> EmptyObj, elems |-> <<>>, next |-> i + 1]
    ELSE IF t[i] = "{"
         THEN IF i + 1 <= Len(t) /\ t[i + 1] = "}"
              THEN [ok |-> TRUE, kind |-> "dict", obj |-> EmptyObj, elems |-> <<>>,
                    next |-> i + 2]
              ELSE JsonFail
    ELSE IF t[i] = "["
         THEN IF i + 1 <= Len(t) /\ t[i + 1] = "]"
              THEN [ok |-> TRUE, kind |-> "list", obj |-> EmptyObj, elems |-> <<>>,
                    next |-> i + 2]
              ELSE json_elements(t, i + 1, <<>>)
    ELSE JsonFail

\* the elements of an array after its "[": value ("," value)* "]"
json_elements(t, i, acc) ==
    LET v == json_value(t, i)
    IN  IF ~v.ok \/ v.next > Len(t) THEN JsonFail
        ELSE LET acc2 == Append(acc, [kind |-> v.kind, obj |-> v.obj])
             IN  IF t[v.next] = "]"
                 THEN [ok |-> TRUE, kind |-> "list", obj |-> EmptyObj, elems |-> acc2,
                       next |-> v.next + 1]
                 ELSE IF t[v.next] = "," THEN json_elements(t, v.next + 1, acc2)
                 ELSE JsonFail

\* json.loads(text): the whole text is one JSON value, else JSONDecodeError
json_loads(text) ==
    LET v == json_value(text, 1)
    IN  IF v.ok /\ v.next = Len(text) + 1 THEN v ELSE JsonFail

Result(email_id, o, provider_used, reason) ==
    [email_id |-> email_id, category |-> o.category, confidence |-> o.confidence,
     suggested_action |-> o.suggested_action, provider_used |-> provider_used,
     reason |-> reason]

\* a fallback that forgets which email it stands for
create_fallback_without_id(email_id, reason, provider) ==
    [email_id |-> "absent", category |-> "UNKNOWN", confidence |-> 0,
     suggested_action |-> "manual_review", provider_used |-> provider,
     reason |-> reason]

create_fallback_classification(email_id, reason, provider) ==
    [email_id |-> email_id, category |-> "UNKNOWN", confidence |-> 0,
     suggested_action |-> "manual_review", provider_used |-> provider,
     reason |-> reason]

\* classify_email after call_llm, up to the parse: the members of the JSON
\* object found in the response, or the reason no object was parsed
parse_classification(response) ==
    LET m == search_object(response)
    IN  IF m.found
        THEN LET v == json_loads(m.text)
             IN  IF v.ok THEN [parsed |-> TRUE, obj |-> v.obj, reason |-> "llm"]
                 ELSE [parsed |-> FALSE, obj |-> EmptyObj, reason |-> "JSON decode error"]
        ELSE [parsed |-> FALSE, obj |-> EmptyObj,
              reason |-> "Failed to parse LLM response"]

\* classify_email: the parsed object with email_id and provider_used set, or
\* the fallback
finish_classification(email_id, provider, p) ==
    IF p.parsed THEN Result(email_id, p.obj, provider, "llm")
    ELSE create_fallback_classification(email_id, p.reason, provider)

classify_email(email_id, provider, response) ==
    finish_classification(email_id, provider, parse_classification(response))

\* _classify_batch on the text call_llm returned.  how: "array" (the parsed
\* array is returned, provider_used set on every element), "raise" (an element
\* that is no dict: the item assignment raises TypeError, which nothing
\* catches) or "individual" (no array, or JSONDecodeError: classify_email is
\* called for every email of the batch)
classify_batch(provider, response) ==
    LET m == search_array(response)
        v == json_loads(m.text)
    IN  IF m.found /\ v.ok
        THEN IF \E k \in 1..Len(v.elems) : v.elems[k].kind # "dict"
             THEN [how |-> "raise", results |-> <<>>]
             ELSE [how |-> "array",
                   results |-> [k \in 1..Len(v.elems) |->
                                   Result(v.elems[k].obj.email_id, v.elems[k].obj,
                                          provider, "llm")]]
        ELSE [how |-> "individual", results |-> <<>>]

\* what classify_email can parse out of a call, over every response text
\* and a failing call
EmailParses == {parse_classification(call_llm(threw, r)) :
                   threw \in BOOLEAN, r \in Responses}

\* the outcomes of _classify_batch over every response text and a failing call
BatchOutcomes == {classify_batch("", call_llm(threw, r)) :
                     threw \in BOOLEAN, r \in Responses}

(***************************************************************************)
(* The calls of the action executor as steps of the running command.       *)
(***************************************************************************)
NoCall == [op |-> "none", id |-> "", arg |-> "", permanent |-> FALSE,
           ret |-> "None", raised |-> FALSE, reqs |-> <<>>,
           auth |-> "ok", resp |-> "", again |-> FALSE]

NoResults == [e \in EmailIds |-> "unset"]

NoBulk == [ids |-> <<>>, i |-> 1, results |-> NoResults, attempted |-> <<>>]

Keys(results) == {e \in EmailIds : results[e] # "unset"}

Returned(op, id, arg, permanent, o, auth, resp, again) ==
    [op |-> op, id |-> id, arg |-> arg, permanent |-> permanent,
     ret |-> o.ret, raised |-> o.raised, reqs |-> o.reqs,
     auth |-> auth, resp |-> resp, again |-> again]

DeleteEmail ==
    /\ pc = "idle"
    /\ \E email_id \in EmailIds, permanent \in BOOLEAN, auth \in AuthOutcomes, resp \in Resps :
          LET o == EmailInterface_delete_email(settings, actionsService, email_id,
                                               permanent, auth, resp)
          IN  /\ call' = Returned("delete_email", email_id, "", permanent, o, auth, resp, FALSE)
              /\ actionsService' = o.svc
              /\ mutated' = (mutated \/ HasMutation(o.reqs))
    /\ pc' = "returned"
    /\ UNCHANGED <<settings, bulk, folders, createdOk, fetchVars, clsVars, clean, objVars>>

MoveEmail ==
    /\ pc = "idle"
    /\ \E email_id \in EmailIds, folder \in FolderNames, auth \in AuthOutcomes,
          resp \in Resps, listOk \in BOOLEAN :
          LET o == EmailInterface_move_email(settings, actionsService, email_id, folder,
                                             auth, resp, folders, listOk)
          IN  /\ call' = Returned("move_email", email_id, folder, FALSE, o, auth, resp, FALSE)
              /\ actionsService' = o.svc
              /\ mutated' = (mutated \/ HasMutation(o.reqs))
    /\ pc' = "returned"
    /\ UNCHANGED <<settings, bulk, folders, createdOk, fetchVars, clsVars, clean, objVars>>

MarkAsRead ==
    /\ pc = "idle"
    /\ \E email_id \in EmailIds, auth \in AuthOutcomes, resp \in Resps :
          LET o == EmailInterface_mark_as_read(settings, actionsService, email_id, auth, resp)
          IN  /\ call' = Returned("mark_as_read", email_id, "", FALSE, o, auth, resp, FALSE)
              /\ actionsService' = o.svc
              /\ mutated' = (mutated \/ HasMutation(o.reqs))
    /\ pc' = "returned"
    /\ UNCHANGED <<settings, bulk, folders, createdOk, fetchVars, clsVars, clean, objVars>>

CreateFolder ==
    /\ pc = "idle"
    /\ \E name \in FolderNames, auth \in AuthOutcomes, fault \in Faults :
          LET resp == CreateResp(folders, name, fault)
              o == EmailInterface_create_folder(settings, actionsService, name, auth, resp)
              sent == \E k \in 1..Len(o.reqs) :
                          o.reqs[k].op \in {"graph.mailfolders.create", "gmail.labels.create"}
          IN  /\ call' = Returned("create_folder", "", name, FALSE, o, auth, resp,
                                  name \in createdOk)
              /\ actionsService' = o.svc
              /\ mutated' = (mutated \/ HasMutation(o.reqs))
              /\ folders' = IF sent /\ resp = "201" THEN folders \cup {name} ELSE folders
              /\ createdOk' = IF ~settings.dry_run /\ ~o.raised /\ Truthy(o.ret)
                              THEN createdOk \cup {name} ELSE createdOk
    /\ pc' = "returned"
    /\ UNCHANGED <<settings, bulk, fetchVars, clsVars, clean, objVars>>

\* bulk_delete / bulk_move: results = {}, then one executor call per id
BulkDelete ==
    /\ pc = "idle"
    /\ \E ids \in IdLists, permanent \in BOOLEAN :
          /\ bulk' = [NoBulk EXCEPT !.ids = ids]
          /\ call' = [NoCall EXCEPT !.op = "bulk_delete", !.permanent = permanent]
    /\ pc' = "bulk"
    /\ UNCHANGED <<settings, folders, createdOk, actionsService, mutated, fetchVars, clsVars, clean, objVars>>

BulkMove ==
    /\ pc = "idle"
    /\ \E ids \in IdLists, folder \in FolderNames :
          /\ bulk' = [NoBulk EXCEPT !.ids = ids]
          /\ call' = [NoCall EXCEPT !.op = "bulk_move", !.arg = folder]
    /\ pc' = "bulk"
    /\ UNCHANGED <<settings, folders, createdOk, actionsService, mutated, fetchVars, clsVars, clean, objVars>>

\* one iteration of the loop: results[email_id] = self.delete_email(...) or
\* self.move_email(...); an exception leaving the call leaves the loop too
BulkStep(o) ==
    LET email_id == bulk.ids[bulk.i]
    IN  /\ bulk' = [bulk EXCEPT !.i = @ + 1,
                                !.attempted = Append(@, email_id),
                                !.results = IF o.raised THEN @
                                            ELSE [@ EXCEPT ![email_id] = o.ret]]
        /\ call' = [call EXCEPT !.reqs = @ \o o.reqs, !.raised = o.raised,
                                !.ret = IF o.raised THEN "None" ELSE "map"]
        /\ actionsService' = o.svc
        /\ mutated' = (mutated \/ HasMutation(o.reqs))
        /\ pc' = IF o.raised THEN "returned" ELSE "bulk"

BulkIterate ==
    /\ pc = "bulk"
    /\ bulk.i <= Len(bulk.ids)
    /\ \E auth \in AuthOutcomes, resp \in Resps, listOk \in BOOLEAN :
          IF call.op = "bulk_delete"
          THEN BulkStep(EmailInterface_delete_email(settings, actionsService,
                            bulk.ids[bulk.i], call.permanent, auth, resp))
          ELSE BulkStep(EmailInterface_move_email(settings, actionsService,
                            bulk.ids[bulk.i], call.arg, auth, resp, folders, listOk))
    /\ UNCHANGED <<settings, folders, createdOk, fetchVars, clsVars, clean, objVars>>

BulkReturn ==
    /\ pc = "bulk"
    /\ bulk.i > Len(bulk.ids)
    /\ call' = [call EXCEPT !.ret = "map"]
    /\ pc' = "returned"
    /\ UNCHANGED <<settings, bulk, folders, createdOk, actionsService, mutated, fetchVars, clsVars, clean, objVars>>

\* the caller takes the result; the command is ready for its next call
Ack ==
    /\ pc = "returned"
    /\ pc' = "idle"
    /\ call' = NoCall
    /\ bulk' = NoBulk
    /\ UNCHANGED <<settings, folders, createdOk, actionsService, mutated, fetchVars, clsVars, clean, objVars>>

(***************************************************************************)
(* The calls of the classifier as steps of the running command.            *)
(***************************************************************************)
NoCls == [op |-> "none", emails |-> <<>>, batch_size |-> 1, i |-> 1, j |-> 1,
          base |-> 0, results |-> <<>>, llm_calls |-> 0, raised |-> FALSE,
          how |-> "none", threw |-> FALSE, response |-> <<>>,
          calls0 |-> 0, log |-> <<>>]

\* a classifier that prompts every backend per batch
NoFreeBackends == {}

FreeBackends == {"ollama", "groq", "gemini"}

\* the last index of the batch emails[i:i + batch_size]
BatchEnd(c) == Min(c.i + c.batch_size - 1, Len(c.emails))

EmailLists == {s \in UNION {[1..n -> EmailIds] : n \in 0..MaxEmails} :
                  \A a, b \in 1..Len(s) : a # b => s[a] # s[b]}

WithProvider(results, provider) ==
    [k \in 1..Len(results) |-> [results[k] EXCEPT !.provider_used = provider]]

\* the LLM calls spent on the batch emails[i:i + batch_size]
ChunkLog(c, how, calls) ==
    [size |-> BatchEnd(c) - c.i + 1, how |-> how, calls |-> calls]

\* a single classify_email call
ClassifyEmail ==
    /\ pc = "idle"
    /\ \E e \in EmailIds, threw \in BOOLEAN, r \in Responses :
          cls' = [NoCls EXCEPT !.op = "classify_email", !.emails = <<e>>,
                               !.results = <<classify_email(e, llm, call_llm(threw, r))>>,
                               !.llm_calls = 1, !.threw = threw, !.response = r]
    /\ pc' = "classified"
    /\ UNCHANGED <<settings, actVars, fetchVars, llm, clean, objVars>>

\* classify_emails_batch(emails, batch_size): results = []
ClassifyEmailsBatch ==
    /\ pc = "idle"
    /\ \E emails \in EmailLists, batch_size \in 1..MaxBatch :
          cls' = [NoCls EXCEPT !.op = "classify_emails_batch", !.emails = emails,
                               !.batch_size = batch_size]
    /\ pc' = "batch_loop"
    /\ UNCHANGED <<settings, actVars, fetchVars, llm, clean, objVars>>

\* _classify_batch(emails) up to the parse of the text call_llm returned
ClassifyBatch ==
    /\ pc = "idle"
    /\ llm \notin FreeBackends
    /\ \E emails \in EmailLists, threw \in BOOLEAN, r \in Responses :
          LET o == classify_batch(llm, call_llm(threw, r))
          IN  cls' = [NoCls EXCEPT !.op = "_classify_batch", !.emails = emails,
                                   !.batch_size = IF emails = <<>> THEN 1 ELSE Len(emails),
                                   !.llm_calls = 1, !.threw = threw, !.response = r,
                                   !.how = o.how, !.raised = (o.how = "raise"),
                                   !.results = o.results]
    /\ pc' = "batch_parsed"
    /\ UNCHANGED <<settings, actVars, fetchVars, llm, clean, objVars>>

\* _classify_batch after the parse: the array is returned, the TypeError
\* leaves the call, or the comprehension over classify_email starts
ClassifyBatchBranch ==
    /\ pc = "batch_parsed"
    /\ cls' = [cls EXCEPT !.threw = FALSE, !.response = <<>>]
    /\ pc' = IF cls.how = "individual" THEN "each" ELSE "classified"
    /\ UNCHANGED <<settings, actVars, fetchVars, llm, clean, objVars>>

\* a batch of a free backend: classify_email for every email of the batch
BatchIndividual ==
    /\ pc = "batch_loop"
    /\ cls.i <= Len(cls.emails)
    /\ llm \in FreeBackends
    /\ cls' = [cls EXCEPT !.j = cls.i, !.base = Len(cls.results), !.how = "none",
                          !.calls0 = cls.llm_calls]
    /\ pc' = "each"
    /\ UNCHANGED <<settings, actVars, fetchVars, llm, clean, objVars>>

\* a batch of a premium backend: _classify_batch, one call with the batch prompt
BatchPrompt ==
    /\ pc = "batch_loop"
    /\ cls.i <= Len(cls.emails)
    /\ llm \notin FreeBackends
    /\ \E o \in BatchOutcomes :
          /\ cls' = [cls EXCEPT
                        !.llm_calls = @ + 1,
                        !.calls0 = cls.llm_calls,
                        !.log = IF o.how = "individual" THEN @
                                ELSE Append(@, ChunkLog(cls, o.how, 1)),
                        !.how = o.how,
                        !.base = Len(cls.results),
                        !.j = cls.i,
                        !.raised = (o.how = "raise"),
                        !.results = IF o.how = "array"
                                    THEN @ \o WithProvider(o.results, llm) ELSE @,
                        !.i = IF o.how = "array" THEN @ + cls.batch_size ELSE @]
          /\ pc' = CASE o.how = "array" -> "batch_loop"
                     [] o.how = "raise" -> "classified"
                     [] OTHER -> "each"
    /\ UNCHANGED <<settings, actVars, fetchVars, llm, clean, objVars>>

\* one classify_email call of the loop over the batch
ClassifyEach ==
    /\ pc = "each"
    /\ cls.j <= BatchEnd(cls)
    /\ \E p \in EmailParses :
          cls' = [cls EXCEPT
                     !.results = Append(@, finish_classification(cls.emails[cls.j], llm, p)),
                     !.llm_calls = @ + 1,
                     !.j = @ + 1]
    /\ pc' = "each"
    /\ UNCHANGED <<settings, actVars, fetchVars, llm, clean, objVars>>

\* the batch is done: the next i of range(0, len(emails), batch_size)
EachDone ==
    /\ pc = "each"
    /\ cls.j > BatchEnd(cls)
    /\ cls' = [cls EXCEPT !.i = @ + cls.batch_size,
                          !.log = Append(@, ChunkLog(cls, cls.how, cls.llm_calls - cls.calls0)),
                          !.how = IF cls.op = "_classify_batch" THEN @ ELSE "none"]
    /\ pc' = "batch_loop"
    /\ UNCHANGED <<settings, actVars, fetchVars, llm, clean, objVars>>

BatchReturn ==
    /\ pc = "batch_loop"
    /\ cls.i > Len(cls.emails)
    /\ pc' = "classified"
    /\ UNCHANGED <<settings, actVars, fetchVars, llm, cls, clean, objVars>>

\* the caller takes the results
ClassifyAck ==
    /\ pc = "classified"
    /\ pc' = "idle"
    /\ cls' = NoCls
    /\ UNCHANGED <<settings, actVars, fetchVars, llm, clean, objVars>>

(***************************************************************************)
(* Settings: dry_run defaults to True and is read from the environment.    *)
(***************************************************************************)
SettingsSpace == [dry_run : BOOLEAN, email_provider : Providers, batch_size : 1..MaxBatch]

\* An environment variable is <<>> when it is not set and <<value>> when it is.
EnvValue(variable, default) == IF variable = <<>> THEN default ELSE variable[1]

NoEnv == [DRY_RUN |-> <<>>, EMAIL_PROVIDER |-> <<>>, BATCH_SIZE |-> <<>>,
          LLM_PROVIDER |-> <<>>, GROQ_API_KEY |-> <<>>, GOOGLE_API_KEY |-> <<>>,
          OPENAI_API_KEY |-> <<>>, ANTHROPIC_API_KEY |-> <<>>]

DefaultBatchSize == 50

Settings_dry_run_off(e) ==
    [dry_run           |-> EnvValue(e.DRY_RUN, FALSE),
     email_provider    |-> EnvValue(e.EMAIL_PROVIDER, "gmail"),
     batch_size        |-> EnvValue(e.BATCH_SIZE, DefaultBatchSize),
     llm_provider      |-> EnvValue(e.LLM_PROVIDER, "groq"),
     groq_api_key      |-> EnvValue(e.GROQ_API_KEY, "None"),
     google_api_key    |-> EnvValue(e.GOOGLE_API_KEY, "None"),
     openai_api_key    |-> EnvValue(e.OPENAI_API_KEY, "None"),
     anthropic_api_key |-> EnvValue(e.ANTHROPIC_API_KEY, "None")]

\* Settings(): every field takes the value of its environment variable, or its
\* declared default
Settings(e) ==
    [dry_run           |-> EnvValue(e.DRY_RUN, TRUE),
     email_provider    |-> EnvValue(e.EMAIL_PROVIDER, "gmail"),
     batch_size        |-> EnvValue(e.BATCH_SIZE, DefaultBatchSize),
     llm_provider      |-> EnvValue(e.LLM_PROVIDER, "groq"),
     groq_api_key      |-> EnvValue(e.GROQ_API_KEY, "None"),
     google_api_key    |-> EnvValue(e.GOOGLE_API_KEY, "None"),
     openai_api_key    |-> EnvValue(e.OPENAI_API_KEY, "None"),
     anthropic_api_key |-> EnvValue(e.ANTHROPIC_API_KEY, "None")]

\* Settings.available_providers
available_providers(s) ==
    (IF s.groq_api_key # "None" THEN <<"groq">> ELSE <<>>)
        \o (IF s.google_api_key # "None" THEN <<"gemini">> ELSE <<>>)
        \o (IF s.openai_api_key # "None" THEN <<"openai">> ELSE <<>>)
        \o (IF s.anthropic_api_key # "None" THEN <<"anthropic">> ELSE <<>>)

\* Settings.validate_llm_config: the exception it raises, "None" when it returns
validate_llm_config(s) ==
    LET available == available_providers(s)
    IN  IF available = <<>> THEN "ValueError: No LLM provider available"
        ELSE IF s.llm_provider \notin SeqToSet(available)
             THEN "ValueError: Selected LLM provider is not available"
             ELSE "None"

NoValidation == [op |-> "none", raised |-> "None"]

ApiKeyFields == {"groq_api_key", "google_api_key", "openai_api_key", "anthropic_api_key"}

\* the test assigns a key to a field of the settings object it created
SetApiKey ==
    /\ pc = "idle"
    /\ \E field \in ApiKeyFields :
          /\ settings[field] = "None"
          /\ settings' = [settings EXCEPT ![field] = "test_key"]
    /\ UNCHANGED <<pc, actVars, fetchVars, clsVars, clean, objVars>>

ValidateLlmConfig ==
    /\ pc = "idle"
    /\ validation' = [op |-> "validate_llm_config", raised |-> validate_llm_config(settings)]
    /\ pc' = "validated"
    /\ UNCHANGED <<settings, actVars, fetchVars, clsVars, clean, iface, classifier, proc, env, message>>

\* pytest.raises catches the exception, or the call returns
ValidationAck ==
    /\ pc = "validated"
    /\ pc' = "idle"
    /\ validation' = NoValidation
    /\ UNCHANGED <<settings, actVars, fetchVars, clsVars, clean, iface, classifier, proc, env, message>>


(***************************************************************************)
(* The fetchers.  The provider holds `mailbox`, the messages matching the  *)
(* query (folder, days_back), newest first, and serves them in pages.      *)
(***************************************************************************)
GraphMaxTop == 1000

\* a return that forgets the slice
TruncateNot(all_emails, limit) == all_emails

\* all_emails[:limit]
Truncate(all_emails, limit) == SubSeq(all_emails, 1, Min(limit, Len(all_emails)))

NoFetch == [limit |-> 0, all_emails |-> <<>>, url |-> FALSE, top |-> 0,
            messages |-> <<>>, i |-> 1, pages |-> 0, failed |-> FALSE,
            ret |-> <<>>, raised |-> FALSE]

\* EmailInterface.fetch_emails -> EmailFetcher.fetch_emails (outlook) up to the
\* loop: the token is acquired outside the try block
\* EmailInterface.fetch_emails -> GmailFetcher.fetch_emails (gmail) up to the
\* list request: the service is acquired outside the try block
FetchEmails ==
    /\ pc = "idle"
    /\ \E limit \in 0..MaxLimit, auth \in AuthOutcomes :
          IF settings.email_provider = "outlook"
          THEN LET h == get_auth_headers(auth)
               IN  /\ fetch' = [NoFetch EXCEPT !.limit = limit, !.url = TRUE,
                                               !.top = Min(limit, GraphMaxTop),
                                               !.raised = h.raised]
                   /\ pc' = IF h.raised THEN "fetched" ELSE "outlook_loop"
                   /\ UNCHANGED fetcherService
          ELSE LET g == get_service(fetcherService, auth)
               IN  /\ fetch' = [NoFetch EXCEPT !.limit = limit, !.raised = g.raised]
                   /\ pc' = IF g.raised THEN "fetched" ELSE "gmail_list"
                   /\ fetcherService' = g.svc
    /\ UNCHANGED <<settings, actVars, mailbox, clsVars, clean, objVars>>

\* one turn of `while len(all_emails) < limit and url`: a page of at most $top
\* records and the nextLink, or a RequestException, which returns []
OutlookPage ==
    /\ pc = "outlook_loop"
    /\ Len(fetch.all_emails) < fetch.limit /\ fetch.url
    /\ LET off == Len(fetch.all_emails)
           left == Len(mailbox) - off
       IN  \/ /\ fetch' = [fetch EXCEPT !.failed = TRUE, !.ret = <<>>]
              /\ pc' = "fetched"
           \/ \E k \in 0..Min(fetch.top, left) :
                 /\ left > 0 => k > 0
                 /\ fetch' = [fetch EXCEPT
                                 !.all_emails = @ \o SubSeq(mailbox, off + 1, off + k),
                                 !.url = (off + k < Len(mailbox)),
                                 !.pages = @ + 1]
                 /\ pc' = "outlook_loop"
    /\ UNCHANGED <<settings, actVars, mailbox, fetcherService, clsVars, clean, objVars>>

OutlookReturn ==
    /\ pc = "outlook_loop"
    /\ ~(Len(fetch.all_emails) < fetch.limit /\ fetch.url)
    /\ fetch' = [fetch EXCEPT !.ret = Truncate(fetch.all_emails, fetch.limit)]
    /\ pc' = "fetched"
    /\ UNCHANGED <<settings, actVars, mailbox, fetcherService, clsVars, clean, objVars>>

\* messages().list(q=query, maxResults=limit): at most maxResults ids; an
\* error or an empty list returns []
GmailList ==
    /\ pc = "gmail_list"
    /\ \/ /\ fetch' = [fetch EXCEPT !.failed = TRUE, !.ret = <<>>]
          /\ pc' = "fetched"
       \/ \E k \in 0..Min(fetch.limit, Len(mailbox)) :
             /\ Min(fetch.limit, Len(mailbox)) > 0 => k > 0
             /\ fetch' = [fetch EXCEPT !.messages = SubSeq(mailbox, 1, k),
                                       !.pages = 1, !.ret = <<>>]
             /\ pc' = IF k = 0 THEN "fetched" ELSE "gmail_details"
    /\ UNCHANGED <<settings, actVars, mailbox, fetcherService, clsVars, clean, objVars>>

\* one turn of `for i, message in enumerate(messages)`: _get_message_details
\* returns the record, or None on an error, which is skipped
GmailDetail ==
    /\ pc = "gmail_details"
    /\ fetch.i <= Len(fetch.messages)
    /\ \E ok \in BOOLEAN :
          fetch' = [fetch EXCEPT !.i = @ + 1,
                                 !.failed = (@ \/ ~ok),
                                 !.all_emails = IF ok THEN Append(@, fetch.messages[fetch.i])
                                                ELSE @]
    /\ pc' = "gmail_details"
    /\ UNCHANGED <<settings, actVars, mailbox, fetcherService, clsVars, clean, objVars>>

GmailReturn ==
    /\ pc = "gmail_details"
    /\ fetch.i > Len(fetch.messages)
    /\ fetch' = [fetch EXCEPT !.ret = Truncate(fetch.all_emails, fetch.limit)]
    /\ pc' = "fetched"
    /\ UNCHANGED <<settings, actVars, mailbox, fetcherService, clsVars, clean, objVars>>

\* the caller takes the list
FetchAck ==
    /\ pc = "fetched"
    /\ pc' = "idle"
    /\ fetch' = NoFetch
    /\ UNCHANGED <<settings, actVars, mailbox, fetcherService, clsVars, clean, objVars>>

(***************************************************************************)
(* The clean command, src/main.py: fetch, classify batch by batch, select  *)
(* the high-confidence JUNK results, ask, delete.                          *)
(***************************************************************************)
\* --confidence-threshold in tenths; 0.8 is the default
Thresholds == {5, 8}

NoClean == [auto_delete |-> FALSE, threshold |-> 8, emails |-> <<>>, i |-> 1,
            results |-> <<>>, high_confidence_junk |-> <<>>, k |-> 1,
            asked |-> FALSE, confirmed |-> FALSE, deletes |-> <<>>,
            deleted_count |-> 0, raised |-> FALSE, reqs |-> <<>>]

\* result.get('confidence', 0)
Confidence(result) == IF result.confidence = -1 THEN 0 ELSE result.confidence

IsHighConfidenceJunk(result, threshold) ==
    result.category = "JUNK" /\ Confidence(result) >= threshold

\* a clean that deletes whatever the user answers
ConfirmTargetAlways(yes) == "clean_delete"

\* if click.confirm(...): the delete loop runs only on a yes
ConfirmTarget(yes) == IF yes THEN "clean_delete" ELSE "done"

\* emails = fetcher.fetch_emails(...); if not emails: return
CleanFetched ==
    /\ pc = "fetched"
    /\ clean' = [clean EXCEPT !.emails = fetch.ret, !.raised = fetch.raised]
    /\ pc' = IF fetch.raised \/ fetch.ret = <<>> THEN "done" ELSE "clean_loop"
    /\ fetch' = NoFetch
    /\ UNCHANGED <<settings, actVars, mailbox, fetcherService, clsVars, objVars>>

\* batch = emails[i:i + batch_size]; classifier.classify_emails_batch(batch, batch_size)
CleanClassify ==
    /\ pc = "clean_loop"
    /\ clean.i <= Len(clean.emails)
    /\ cls' = [NoCls EXCEPT
                  !.op = "classify_emails_batch",
                  !.emails = SubSeq(clean.emails, clean.i,
                                    Min(clean.i + settings.batch_size - 1, Len(clean.emails))),
                  !.batch_size = settings.batch_size]
    /\ pc' = "batch_loop"
    /\ UNCHANGED <<settings, actVars, fetchVars, llm, clean, objVars>>

\* results.extend(batch_results); an exception of the classifier ends the command
CleanCollect ==
    /\ pc = "classified"
    /\ clean' = [clean EXCEPT !.results = IF cls.raised THEN @ ELSE @ \o cls.results,
                              !.i = @ + settings.batch_size,
                              !.raised = cls.raised]
    /\ cls' = NoCls
    /\ pc' = IF cls.raised THEN "done" ELSE "clean_loop"
    /\ UNCHANGED <<settings, actVars, fetchVars, llm, objVars>>

\* the selection loop and `if auto_delete and high_confidence_junk`
CleanSelect ==
    /\ pc = "clean_loop"
    /\ clean.i > Len(clean.emails)
    /\ LET hcj == SelectSeq(clean.results,
                            LAMBDA r : IsHighConfidenceJunk(r, clean.threshold))
       IN  /\ clean' = [clean EXCEPT !.high_confidence_junk = hcj]
           /\ pc' = IF clean.auto_delete /\ hcj # <<>> THEN "confirm" ELSE "done"
    /\ UNCHANGED <<settings, actVars, fetchVars, clsVars, objVars>>

CleanConfirm ==
    /\ pc = "confirm"
    /\ \E yes \in BOOLEAN :
          /\ clean' = [clean EXCEPT !.asked = TRUE, !.confirmed = yes]
          /\ pc' = ConfirmTarget(yes)
    /\ UNCHANGED <<settings, actVars, fetchVars, clsVars, objVars>>

\* one turn of the delete loop: `if email_id and actions.delete_email(email_id)`
CleanDelete ==
    /\ pc = "clean_delete"
    /\ clean.k <= Len(clean.high_confidence_junk)
    /\ LET email_id == clean.high_confidence_junk[clean.k].email_id
       IN  IF email_id = "absent"
           THEN /\ clean' = [clean EXCEPT !.k = @ + 1]
                /\ pc' = "clean_delete"
                /\ UNCHANGED <<actionsService, mutated>>
           ELSE \E auth \in AuthOutcomes, resp \in Resps :
                   LET o == EmailInterface_delete_email(settings, actionsService, email_id,
                                                        FALSE, auth, resp)
                   IN  /\ actionsService' = o.svc
                       /\ mutated' = (mutated \/ HasMutation(o.reqs))
                       /\ clean' = [clean EXCEPT
                                       !.k = @ + 1,
                                       !.deletes = Append(@, email_id),
                                       !.reqs = @ \o o.reqs,
                                       !.raised = o.raised,
                                       !.deleted_count = IF ~o.raised /\ o.ret = "True"
                                                         THEN @ + 1 ELSE @]
                       /\ pc' = IF o.raised THEN "done" ELSE "clean_delete"
    /\ UNCHANGED <<settings, call, bulk, folders, createdOk, fetchVars, clsVars, objVars>>

CleanDeleted ==
    /\ pc = "clean_delete"
    /\ clean.k > Len(clean.high_confidence_junk)
    /\ pc' = "done"
    /\ UNCHANGED <<settings, actVars, fetchVars, clsVars, clean, objVars>>

(***************************************************************************)
(* Construction of the provider facade, src/email/email_interface.py.      *)
(* An import of a module of a package first runs the package's __init__,   *)
(* which imports the modules it names; a module exists when its file does. *)
(***************************************************************************)
\* the module files of the repository
RepoModules == {"src.config.settings", "src.auth.gmail_auth", "src.auth.microsoft_auth",
                "src.actions.gmail_actions", "src.actions.email_actions",
                "src.llm.prompts", "src.llm.classifier",
                "src.email.email_interface", "src.email.processor",
                "src.email.gmail_fetcher", "src.email.outlook_fetcher"}

\* the imports of src/actions/__init__.py and src/email/__init__.py
PackageInit == [actions |-> {"src.actions.outlook_actions", "src.actions.gmail_actions"},
                email   |-> {"src.email.outlook_fetcher", "src.email.processor"}]

\* `from <module> import <name>` succeeds
Importable(package, module) ==
    /\ PackageInit[package] \subseteq RepoModules
    /\ module \in RepoModules

\* values of settings.email_provider (EMAIL_PROVIDER is a free string)
ProviderNames == {"gmail", "outlook", "yahoo", ""}

NoInterface == [done |-> FALSE, provider |-> "", raised |-> "none",
                fetcher |-> "None", actions |-> "None"]

\* EmailInterface.__init__ and _setup_provider: both imports of a branch
\* precede the construction of the fetcher and of the action executor
setup_provider(provider) ==
    CASE provider = "gmail" ->
            IF /\ Importable("email", "src.email.gmail_fetcher")
               /\ Importable("actions", "src.actions.gmail_actions")
            THEN [NoInterface EXCEPT !.done = TRUE, !.provider = provider,
                                     !.fetcher = "GmailFetcher", !.actions = "GmailActions"]
            ELSE [NoInterface EXCEPT !.done = TRUE, !.provider = provider,
                                     !.raised = "ModuleNotFoundError"]
      [] provider = "outlook" ->
            IF /\ Importable("email", "src.email.outlook_fetcher")
               /\ Importable("actions", "src.actions.outlook_actions")
            THEN [NoInterface EXCEPT !.done = TRUE, !.provider = provider,
                                     !.fetcher = "EmailFetcher", !.actions = "EmailActions"]
            ELSE [NoInterface EXCEPT !.done = TRUE, !.provider = provider,
                                     !.raised = "ModuleNotFoundError"]
      [] OTHER -> [NoInterface EXCEPT !.done = TRUE, !.provider = provider,
                                      !.raised = "ValueError"]

\* fetcher = EmailInterface()
ConstructInterface ==
    /\ pc = "idle"
    /\ ~iface.done
    /\ iface' = setup_provider(settings.email_provider)
    /\ UNCHANGED <<settings, pc, actVars, fetchVars, clsVars, clean, classifier, proc,
                 env, validation, message>>

(***************************************************************************)
(* Construction of the classifier, src/llm/classifier.py.                  *)
(* settings.available: the backends whose is_available() answers True (the *)
(* key is set and the client library imported).  settings.ollama_configured:*)
(* the settings object answers ollama_base_url, ollama_model, has_ollama   *)
(* and get_preferred_provider; the Settings class declares none of them,   *)
(* the tests put a mock in its place that answers every attribute.         *)
(***************************************************************************)
\* the keys of self.providers, in insertion order
ProviderOrder == <<"ollama", "groq", "gemini", "openai", "anthropic">>

\* the provider argument of EmailClassifier(provider)
BackendArgs == LlmNames \cup {"auto", "mistral"}

\* what settings.get_preferred_provider() may answer
PreferredValues == LlmNames \cup {"None", "mistral"}

NoClassifier == [done |-> FALSE, arg |-> "", preferred |-> "unread",
                 raised |-> "none", active |-> "None"]

\* for p in self.providers.values(): if p.is_available(): return p
first_available(available) ==
    IF \E k \in 1..Len(ProviderOrder) : ProviderOrder[k] \in available
    THEN ProviderOrder[SetMin({k \in 1..Len(ProviderOrder) : ProviderOrder[k] \in available})]
    ELSE "None"

\* a selection that trusts the name it is given
select_provider_unchecked(available, provider, preferred) ==
    IF provider = "auto"
    THEN IF preferred # "None" /\ preferred \notin LlmNames
         THEN [raised |-> "KeyError", provider |-> "None"]
         ELSE IF preferred # "None" /\ preferred \in available
              THEN [raised |-> "none", provider |-> preferred]
              ELSE [raised |-> "none", provider |-> first_available(available)]
    ELSE IF provider \in LlmNames
         THEN [raised |-> "none", provider |-> provider]
         ELSE [raised |-> "ValueError", provider |-> "None"]

\* EmailClassifier._select_provider
select_provider(available, provider, preferred) ==
    IF provider = "auto"
    THEN IF preferred # "None" /\ preferred \notin LlmNames
         THEN [raised |-> "KeyError", provider |-> "None"]
         ELSE IF preferred # "None" /\ preferred \in available
              THEN [raised |-> "none", provider |-> preferred]
              ELSE [raised |-> "none", provider |-> first_available(available)]
    ELSE IF provider \in LlmNames /\ provider \in available
         THEN [raised |-> "none", provider |-> provider]
         ELSE [raised |-> "ValueError", provider |-> "None"]

\* EmailClassifier.__init__: OllamaProvider() reads settings.ollama_base_url
\* first; a selection of None raises ValueError
EmailClassifier_init(s, provider, preferred) ==
    IF ~s.ollama_configured
    THEN [NoClassifier EXCEPT !.done = TRUE, !.arg = provider,
                              !.raised = "AttributeError"]
    ELSE LET sel == select_provider(s.available, provider, preferred)
         IN  [NoClassifier EXCEPT
                 !.done = TRUE, !.arg = provider,
                 !.preferred = IF provider = "auto" THEN preferred ELSE "unread",
                 !.raised = IF sel.raised # "none" THEN sel.raised
                            ELSE IF sel.provider = "None" THEN "ValueError" ELSE "none",
                 !.active = sel.provider]

\* classifier = EmailClassifier(provider)
ConstructClassifier ==
    /\ pc = "idle"
    /\ ~classifier.done
    /\ \E provider \in BackendArgs, preferred \in PreferredValues :
          /\ provider # "auto" => preferred = "None"
          /\ classifier' = EmailClassifier_init(settings, provider, preferred)
    /\ llm' = classifier'.active
    /\ UNCHANGED <<settings, pc, actVars, fetchVars, cls, clean, iface, proc,
                 env, validation, message>>

(***************************************************************************)
(* The body of a Gmail message, src/email/gmail_fetcher.py.  A part is a   *)
(* record: its mimeType, the base64url text of body.data ("none" when the  *)
(* key is missing) and its parts (<<>> when it has no 'parts' key).        *)
(***************************************************************************)
\* base64.urlsafe_b64decode(data).decode('utf-8')
Base64Table == [YQ |-> "a", Yg |-> "b", PGk |-> "<i>"]

b64decode(data) == Base64Table[data]

\* GmailFetcher._extract_body_from_parts
RECURSIVE extract_body_from_parts(_)
extract_body_from_parts(parts) ==
    IF parts = <<>> THEN ""
    ELSE LET part == Head(parts)
         IN  IF part.mimeType = "text/plain"
             THEN IF part.data # "none" THEN b64decode(part.data)
                  ELSE extract_body_from_parts(Tail(parts))
             ELSE IF part.mimeType = "multipart/alternative" /\ part.parts # <<>>
                  THEN extract_body_from_parts(part.parts)
                  ELSE extract_body_from_parts(Tail(parts))

\* GmailFetcher._extract_body_from_payload
extract_body_from_payload(payload) ==
    IF payload.mimeType = "text/plain" /\ payload.data # "none"
    THEN b64decode(payload.data)
    ELSE ""

\* _get_message_details: body_content
body_content_of(payload) ==
    IF payload.parts # <<>> THEN extract_body_from_parts(payload.parts)
    ELSE extract_body_from_payload(payload)

NoPayload == [mimeType |-> "", data |-> "none", parts |-> <<>>]

NoMessage == [op |-> "none", payload |-> NoPayload, body_content |-> ""]

\* the lists of one to n members of S
ListsUpTo(S, n) == UNION {[1..k -> S] : k \in 1..n}

\* the parts without parts of their own
LeafParts ==
    {[mimeType |-> "text/plain", data |-> d, parts |-> <<>>] : d \in {"none", "YQ", "Yg"}}
        \cup {[mimeType |-> "text/html", data |-> "PGk", parts |-> <<>>]}

\* the multipart containers nested in a message
ContainerParts ==
    {[mimeType |-> m, data |-> "none", parts |-> l] :
        m \in {"multipart/alternative", "multipart/mixed"},
        l \in ListsUpTo(LeafParts, MaxParts)}

\* message['payload']: a single part, or a multipart message whose first part
\* is a leaf or a container and whose further parts are leaves
Payloads ==
    LeafParts
        \cup {[mimeType |-> "multipart/mixed", data |-> "none", parts |-> <<first>> \o rest] :
                 first \in LeafParts \cup ContainerParts,
                 rest \in {<<>>} \cup ListsUpTo(LeafParts, MaxParts - 1)}

\* _get_message_details, the extraction of the body
GetMessageBody ==
    /\ pc = "idle"
    /\ \E payload \in Payloads :
          message' = [op |-> "get_message_details", payload |-> payload,
                      body_content |-> body_content_of(payload)]
    /\ pc' = "extracted"
    /\ UNCHANGED <<settings, actVars, fetchVars, clsVars, clean, iface, classifier, proc,
                   env, validation>>

\* the record is built and returned
MessageAck ==
    /\ pc = "extracted"
    /\ pc' = "idle"
    /\ message' = NoMessage
    /\ UNCHANGED <<settings, actVars, fetchVars, clsVars, clean, iface, classifier, proc,
                   env, validation>>

(***************************************************************************)
(* The heuristic processor, src/email/processor.py.  A text is a sequence  *)
(* of words, a keyword a sequence of words ('weekly update' has two), and  *)
(* `keyword in text` is the occurrence of the keyword's words side by side.*)
(* An address local@domain is the two words local, domain.                 *)
(***************************************************************************)
\* str.lower() on the words of the model
LowerTable == [weekly |-> "weekly", update |-> "update", SALE |-> "sale", sale |-> "sale",
               hello |-> "hello", Unsubscribe |-> "unsubscribe",
               unsubscribe |-> "unsubscribe", info |-> "info", NoReply |-> "noreply",
               noreply |-> "noreply", shop |-> "shop", FACEBOOK |-> "facebook",
               facebook |-> "facebook", Promo |-> "promo", promo |-> "promo",
               user |-> "user", Sub |-> "sub", sub |-> "sub",
               Unknown |-> "unknown", unknown |-> "unknown"] @@ ("@" :> "@")

Lower(w) == LowerTable[w]

LowerText(text) == [k \in 1..Len(text) |-> Lower(text[k])]

\* keyword in text
Occurs(keyword, text) ==
    \E i \in 1..(Len(text) - Len(keyword) + 1) :
        SubSeq(text, i, i + Len(keyword) - 1) = keyword

\* str.split(sep): the pieces of the text between the separators
RECURSIVE split(_, _)
split(text, sep) ==
    IF \A k \in 1..Len(text) : text[k] # sep THEN <<text>>
    ELSE LET i == SetMin({k \in 1..Len(text) : text[k] = sep})
         IN  <<SubSeq(text, 1, i - 1)>> \o split(SubSeq(text, i + 1, Len(text)), sep)

\* EmailProcessor._extract_domain: email.split('@')[1].lower(), or 'Unknown'.
\* Python indexes from 0: [1] is the second piece.
extract_domain(email) ==
    IF \E k \in 1..Len(email) : email[k] = "@"
    THEN LowerText(split(email, "@")[2])
    ELSE <<"Unknown">>

\* extract_sender_info: the address as it is, the domain lowercased
extract_sender_info(email) ==
    [email |-> <<email.sender.local, email.sender.domain>>,
     domain |-> Head(extract_domain(<<email.sender.local, "@", email.sender.domain>>))]

\* the keys of category_keywords, in insertion order
CategoryOrder == <<"newsletters", "notifications", "receipts", "social", "security",
                   "promotional">>

category_keywords ==
    [newsletters   |-> {<<"newsletter">>, <<"weekly", "update">>, <<"digest">>, <<"roundup">>},
     notifications |-> {<<"notification">>, <<"alert">>, <<"reminder">>, <<"update">>},
     receipts      |-> {<<"receipt">>, <<"invoice">>, <<"payment">>, <<"order">>, <<"purchase">>},
     social        |-> {<<"facebook">>, <<"twitter">>, <<"instagram">>, <<"linkedin">>,
                        <<"social">>},
     security      |-> {<<"security">>, <<"password">>, <<"login">>, <<"verify">>, <<"2fa">>,
                        <<"verification">>},
     promotional   |-> {<<"sale">>, <<"discount">>, <<"promo">>, <<"deal">>, <<"offer">>}]

\* content = f"{subject} {body_preview} {sender_info['email']}": subject and
\* body preview lowercased, the address as it is
content_of(email) ==
    LowerText(email.subject) \o LowerText(email.bodyPreview)
        \o extract_sender_info(email).email

\* the loop over category_keywords.items() with its break, and the default
category_of(email) ==
    LET hits == {k \in 1..Len(CategoryOrder) :
                    \E keyword \in category_keywords[CategoryOrder[k]] :
                        Occurs(keyword, content_of(email))}
    IN  IF hits = {} THEN "promotional" ELSE CategoryOrder[SetMin(hits)]

IdsOf(emails) == [k \in 1..Len(emails) |-> emails[k].id]

\* EmailProcessor.categorize_by_content
categorize_by_content(emails) ==
    [c \in SeqToSet(CategoryOrder) |->
        IdsOf(SelectSeq(emails, LAMBDA e : category_of(e) = c))]

sale_keywords == {<<"sale">>, <<"discount">>, <<"offer">>, <<"deal">>, <<"promo">>,
                  <<"special">>, <<"limited", "time">>, <<"save">>, <<"%", "off">>,
                  <<"free", "shipping">>, <<"coupon">>}

marketing_indicators == {"marketing", "promo", "newsletter", "email"}

\* the loop of detect_promotional_patterns over the emails: each test appends
\* the lowercased sender address (the domain for marketing_domains) to its list
RECURSIVE append_patterns(_, _)
append_patterns(emails, patterns) ==
    IF emails = <<>> THEN patterns
    ELSE LET email == Head(emails)
             subject == LowerText(email.subject)
             sender_info == extract_sender_info(email)
             sender_email == LowerText(sender_info.email)
             body_preview == LowerText(email.bodyPreview)
             add(list, hit, x) == IF hit THEN Append(list, x) ELSE list
         IN  append_patterns(Tail(emails),
                [sale_keywords |->
                    add(patterns.sale_keywords,
                        \E keyword \in sale_keywords :
                            Occurs(keyword, subject) \/ Occurs(keyword, body_preview),
                        sender_email),
                 unsubscribe_senders |->
                    add(patterns.unsubscribe_senders,
                        Occurs(<<"unsubscribe">>, body_preview), sender_email),
                 no_reply_senders |->
                    add(patterns.no_reply_senders,
                        Occurs(<<"noreply">>, sender_email)
                            \/ Occurs(<<"no-reply">>, sender_email),
                        sender_email),
                 marketing_domains |->
                    add(patterns.marketing_domains,
                        sender_info.domain \in marketing_indicators, sender_info.domain)])

list_set_keeping_duplicates(list) == list

\* list(set(list)): the members of the list, each once (in order of first
\* appearance; Python leaves the order open)
list_set(list) ==
    LET first(k) == \A j \in 1..(k - 1) : list[j] # list[k]
        F[k \in 0..Len(list)] ==
            IF k = 0 THEN <<>>
            ELSE IF first(k) THEN Append(F[k - 1], list[k]) ELSE F[k - 1]
    IN  F[Len(list)]

\* EmailProcessor.detect_promotional_patterns
detect_promotional_patterns(emails) ==
    LET patterns == append_patterns(emails,
                        [sale_keywords |-> <<>>, unsubscribe_senders |-> <<>>,
                         no_reply_senders |-> <<>>, marketing_domains |-> <<>>])
    IN  [key \in DOMAIN patterns |-> list_set(patterns[key])]

\* datetime.fromisoformat(received_date.replace('Z', '+00:00')): a timestamp
\* with the Z suffix parses to an offset-aware datetime, one without to a
\* naive one; age is the number of days it lies before now
fromisoformat(received) == [age |-> received.age, aware |-> (received.tz = "Z")]

\* received_date < cutoff_date, where cutoff_date = datetime.now() - timedelta(days_old)
\* is naive: comparing an aware datetime with it raises TypeError
before_cutoff(date, days_old) ==
    IF date.aware THEN "TypeError"
    ELSE IF date.age > days_old THEN "True" ELSE "False"

Addresses(emails) == {extract_sender_info(emails[k]).email : k \in 1..Len(emails)}

\* EmailProcessor.get_bulk_delete_candidates
get_bulk_delete_candidates(emails, days_old, min_sender_count) ==
    LET dated(e) == e.received.tz # "none"
        cmp(e) == before_cutoff(fromisoformat(e.received), days_old)
        group(a) == IdsOf(SelectSeq(emails,
                            LAMBDA e : /\ dated(e)
                                       /\ cmp(e) = "True"
                                       /\ extract_sender_info(e).email = a))
    IN  IF \E k \in 1..Len(emails) : dated(emails[k]) /\ cmp(emails[k]) = "TypeError"
        THEN [raised |-> TRUE, result |-> <<>>]
        ELSE [raised |-> FALSE,
              result |-> [a \in {x \in Addresses(emails) :
                                    Len(group(x)) >= min_sender_count} |-> group(a)]]

NoProc == [op |-> "none", emails |-> <<>>, address |-> <<>>, days_old |-> 0,
           min_sender_count |-> 0, result |-> <<>>, raised |-> FALSE]

\* the strings handed to _extract_domain: characters '@' and runs of other
\* characters, one token each
AddressTokens == {"@", "user", "Sub", "Unknown"}
AddressStrings == UNION {[1..n -> AddressTokens] : n \in 0..MaxAddressLen}

\* the words the subjects and body previews handed to categorize_by_content
\* are made of
FieldWords == {"weekly", "update", "SALE", "hello"}
FieldTexts == {<<>>} \cup {<<w>> : w \in FieldWords}

\* the sender addresses of the emails handed to categorize_by_content
Senders == [local : {"info"}, domain : {"shop", "FACEBOOK", "Promo"}]

NoDate == [age |-> 0, tz |-> "none"]

\* the email records handed to the keyword heuristics, ids by position
TextEmails(n) ==
    {[k \in 1..n |-> [id |-> MsgIds[k], subject |-> f[k].subject,
                      bodyPreview |-> f[k].bodyPreview, sender |-> f[k].sender,
                      received |-> NoDate]] :
        f \in [1..n -> [subject : FieldTexts, bodyPreview : FieldTexts, sender : Senders]]}

\* the email records handed to get_bulk_delete_candidates: receivedDateTime is
\* missing, or an ISO timestamp with or without the Z suffix
Dates == {NoDate} \cup [age : 0..MaxAge, tz : {"Z", "naive"}]

BulkSenders == {[local |-> "info", domain |-> "shop"], [local |-> "NoReply", domain |-> "shop"]}

\* the email records handed to detect_promotional_patterns
PatternSubjects == {<<>>, <<"SALE">>}
PatternBodies == {<<>>, <<"Unsubscribe">>, <<"sale">>}
PatternSenders == [local : {"info", "NoReply"}, domain : {"shop", "Promo"}]

PatternEmails(n) ==
    {[k \in 1..n |-> [id |-> MsgIds[k], subject |-> f[k].subject,
                      bodyPreview |-> f[k].bodyPreview, sender |-> f[k].sender,
                      received |-> NoDate]] :
        f \in [1..n -> [subject : PatternSubjects, bodyPreview : PatternBodies,
                        sender : PatternSenders]]}

DatedEmails(n) ==
    {[k \in 1..n |-> [id |-> MsgIds[k], subject |-> <<>>, bodyPreview |-> <<>>,
                      sender |-> f[k].sender, received |-> f[k].received]] :
        f \in [1..n -> [sender : BulkSenders, received : Dates]]}

CategorizeByContent ==
    /\ pc = "idle"
    /\ \E n \in 0..MaxTextEmails : \E emails \in TextEmails(n) :
          proc' = [NoProc EXCEPT !.op = "categorize_by_content", !.emails = emails,
                                 !.result = categorize_by_content(emails)]
    /\ pc' = "processed"
    /\ UNCHANGED <<settings, actVars, fetchVars, clsVars, clean, iface, classifier,
                 env, validation, message>>

DetectPromotionalPatterns ==
    /\ pc = "idle"
    /\ \E n \in 0..MaxPatternEmails : \E emails \in PatternEmails(n) :
          proc' = [NoProc EXCEPT !.op = "detect_promotional_patterns", !.emails = emails,
                                 !.result = detect_promotional_patterns(emails)]
    /\ pc' = "processed"
    /\ UNCHANGED <<settings, actVars, fetchVars, clsVars, clean, iface, classifier,
                 env, validation, message>>

GetBulkDeleteCandidates ==
    /\ pc = "idle"
    /\ \E n \in 0..MaxDatedEmails : \E emails \in DatedEmails(n) :
       \E days_old \in 0..MaxAge, min_sender_count \in 1..MaxSenderCount :
          LET o == get_bulk_delete_candidates(emails, days_old, min_sender_count)
          IN  proc' = [NoProc EXCEPT !.op = "get_bulk_delete_candidates",
                                     !.emails = emails, !.days_old = days_old,
                                     !.min_sender_count = min_sender_count,
                                     !.result = o.result, !.raised = o.raised]
    /\ pc' = "processed"
    /\ UNCHANGED <<settings, actVars, fetchVars, clsVars, clean, iface, classifier,
                 env, validation, message>>

ExtractDomain ==
    /\ pc = "idle"
    /\ \E email \in AddressStrings :
          proc' = [NoProc EXCEPT !.op = "extract_domain", !.address = email,
                                 !.result = extract_domain(email)]
    /\ pc' = "processed"
    /\ UNCHANGED <<settings, actVars, fetchVars, clsVars, clean, iface, classifier,
                 env, validation, message>>

\* the caller takes the result
ProcAck ==
    /\ pc = "processed"
    /\ pc' = "idle"
    /\ proc' = NoProc
    /\ UNCHANGED <<settings, actVars, fetchVars, clsVars, clean, iface, classifier,
                 env, validation, message>>


InitActions ==
    /\ settings \in SettingsSpace
    /\ pc = "idle"
    /\ call = NoCall
    /\ bulk = NoBulk
    /\ folders \in SUBSET FolderNames
    /\ createdOk = {}
    /\ actionsService = FALSE
    /\ mutated = FALSE
    /\ mailbox = <<>>
    /\ fetcherService = FALSE
    /\ fetch = NoFetch
    /\ llm = "groq"
    /\ cls = NoCls
    /\ clean = NoClean
    /\ iface = NoInterface
    /\ classifier = NoClassifier
    /\ proc = NoProc
    /\ env = NoEnv
    /\ validation = NoValidation
    /\ message = NoMessage

NextActions ==
    \/ DeleteEmail
    \/ MoveEmail
    \/ MarkAsRead
    \/ CreateFolder
    \/ BulkDelete
    \/ BulkMove
    \/ BulkIterate
    \/ BulkReturn
    \/ Ack

SpecActions == InitActions /\ [][NextActions]_vars

Mailboxes == {SubSeq(MsgIds, 1, n) : n \in 0..Min(MaxMailbox, Len(MsgIds))}

InitFetch ==
    /\ settings \in SettingsSpace
    /\ pc = "idle"
    /\ call = NoCall
    /\ bulk = NoBulk
    /\ folders = {}
    /\ createdOk = {}
    /\ actionsService = FALSE
    /\ mutated = FALSE
    /\ mailbox \in Mailboxes
    /\ fetcherService = FALSE
    /\ fetch = NoFetch
    /\ llm = "groq"
    /\ cls = NoCls
    /\ clean = NoClean
    /\ iface = NoInterface
    /\ classifier = NoClassifier
    /\ proc = NoProc
    /\ env = NoEnv
    /\ validation = NoValidation
    /\ message = NoMessage

NextFetch ==
    \/ FetchEmails
    \/ OutlookPage
    \/ OutlookReturn
    \/ GmailList
    \/ GmailDetail
    \/ GmailReturn
    \/ FetchAck

SpecFetch == InitFetch /\ [][NextFetch]_vars

DefaultSettings == [dry_run |-> TRUE, email_provider |-> "gmail", batch_size |-> MaxBatch]

InitClassifier ==
    /\ settings = DefaultSettings
    /\ pc = "idle"
    /\ call = NoCall
    /\ bulk = NoBulk
    /\ folders = {}
    /\ createdOk = {}
    /\ actionsService = FALSE
    /\ mutated = FALSE
    /\ mailbox = <<>>
    /\ fetcherService = FALSE
    /\ fetch = NoFetch
    /\ llm \in LlmNames
    /\ cls = NoCls
    /\ clean = NoClean
    /\ iface = NoInterface
    /\ classifier = NoClassifier
    /\ proc = NoProc
    /\ env = NoEnv
    /\ validation = NoValidation
    /\ message = NoMessage

NextClassifier ==
    \/ ClassifyEmail
    \/ ClassifyEmailsBatch
    \/ ClassifyBatch
    \/ ClassifyBatchBranch
    \/ BatchIndividual
    \/ BatchPrompt
    \/ ClassifyEach
    \/ EachDone
    \/ BatchReturn
    \/ ClassifyAck

SpecClassifier == InitClassifier /\ [][NextClassifier]_vars

\* one backend classified per email and one prompted per batch
CleanBackends == {"groq", "openai"}

\* the folder holds more messages than any limit asks for
CleanMailbox == SubSeq(MsgIds, 1, Min(MaxMailbox, Len(MsgIds)))

InitClean ==
    /\ settings \in SettingsSpace
    /\ pc = "idle"
    /\ call = NoCall
    /\ bulk = NoBulk
    /\ folders = {}
    /\ createdOk = {}
    /\ actionsService = FALSE
    /\ mutated = FALSE
    /\ mailbox = CleanMailbox
    /\ fetcherService = FALSE
    /\ fetch = NoFetch
    /\ llm \in CleanBackends
    /\ cls = NoCls
    /\ \E auto_delete \in BOOLEAN, threshold \in Thresholds :
          clean = [NoClean EXCEPT !.auto_delete = auto_delete, !.threshold = threshold]
    /\ iface = NoInterface
    /\ classifier = NoClassifier
    /\ proc = NoProc
    /\ env = NoEnv
    /\ validation = NoValidation
    /\ message = NoMessage

NextClean ==
    \/ FetchEmails
    \/ OutlookPage
    \/ OutlookReturn
    \/ GmailList
    \/ GmailDetail
    \/ GmailReturn
    \/ CleanFetched
    \/ CleanClassify
    \/ BatchIndividual
    \/ BatchPrompt
    \/ ClassifyEach
    \/ EachDone
    \/ BatchReturn
    \/ CleanCollect
    \/ CleanSelect
    \/ CleanConfirm
    \/ CleanDelete
    \/ CleanDeleted

SpecClean == InitClean /\ [][NextClean]_vars

ConstructSettings == [dry_run : {TRUE}, email_provider : ProviderNames,
                      batch_size : {MaxBatch}, ollama_configured : BOOLEAN,
                      available : SUBSET LlmNames]

InitConstruct ==
    /\ settings \in ConstructSettings
    /\ pc = "idle"
    /\ call = NoCall
    /\ bulk = NoBulk
    /\ folders = {}
    /\ createdOk = {}
    /\ actionsService = FALSE
    /\ mutated = FALSE
    /\ mailbox = <<>>
    /\ fetcherService = FALSE
    /\ fetch = NoFetch
    /\ llm = "None"
    /\ cls = NoCls
    /\ clean = NoClean
    /\ iface = NoInterface
    /\ classifier = NoClassifier
    /\ proc = NoProc
    /\ env = NoEnv
    /\ validation = NoValidation
    /\ message = NoMessage

NextConstruct ==
    \/ ConstructInterface
    \/ ConstructClassifier

SpecConstruct == InitConstruct /\ [][NextConstruct]_vars

InitProcessor ==
    /\ settings = DefaultSettings
    /\ pc = "idle"
    /\ call = NoCall
    /\ bulk = NoBulk
    /\ folders = {}
    /\ createdOk = {}
    /\ actionsService = FALSE
    /\ mutated = FALSE
    /\ mailbox = <<>>
    /\ fetcherService = FALSE
    /\ fetch = NoFetch
    /\ llm = "groq"
    /\ cls = NoCls
    /\ clean = NoClean
    /\ iface = NoInterface
    /\ classifier = NoClassifier
    /\ proc = NoProc
    /\ env = NoEnv
    /\ validation = NoValidation
    /\ message = NoMessage

NextProcessor ==
    \/ CategorizeByContent
    \/ DetectPromotionalPatterns
    \/ GetBulkDeleteCandidates
    \/ ExtractDomain
    \/ ProcAck

SpecProcessor == InitProcessor /\ [][NextProcessor]_vars

InitBody ==
    /\ settings = DefaultSettings
    /\ pc = "idle"
    /\ call = NoCall
    /\ bulk = NoBulk
    /\ folders = {}
    /\ createdOk = {}
    /\ actionsService = FALSE
    /\ mutated = FALSE
    /\ mailbox = <<>>
    /\ fetcherService = FALSE
    /\ fetch = NoFetch
    /\ llm = "groq"
    /\ cls = NoCls
    /\ clean = NoClean
    /\ iface = NoInterface
    /\ classifier = NoClassifier
    /\ proc = NoProc
    /\ env = NoEnv
    /\ validation = NoValidation
    /\ message = NoMessage

NextBody ==
    \/ GetMessageBody
    \/ MessageAck

SpecBody == InitBody /\ [][NextBody]_vars

\* the environments of the settings tests: the API keys and LLM_PROVIDER
SettingsEnvironments ==
    {[NoEnv EXCEPT !.LLM_PROVIDER = f.provider, !.GROQ_API_KEY = f.groq,
                   !.GOOGLE_API_KEY = f.google, !.OPENAI_API_KEY = f.openai,
                   !.ANTHROPIC_API_KEY = f.anthropic] :
        f \in [provider : {<<>>, <<"groq">>, <<"gemini">>, <<"openai">>, <<"anthropic">>,
                           <<"mistral">>},
               groq : {<<>>, <<"key">>}, google : {<<>>, <<"key">>},
               openai : {<<>>, <<"key">>}, anthropic : {<<>>, <<"key">>}]}

InitSettings ==
    /\ env \in SettingsEnvironments
    /\ settings = Settings(env)
    /\ pc = "idle"
    /\ call = NoCall
    /\ bulk = NoBulk
    /\ folders = {}
    /\ createdOk = {}
    /\ actionsService = FALSE
    /\ mutated = FALSE
    /\ mailbox = <<>>
    /\ fetcherService = FALSE
    /\ fetch = NoFetch
    /\ llm = "groq"
    /\ cls = NoCls
    /\ clean = NoClean
    /\ iface = NoInterface
    /\ classifier = NoClassifier
    /\ proc = NoProc
    /\ validation = NoValidation
    /\ message = NoMessage

NextSettings ==
    \/ SetApiKey
    \/ ValidateLlmConfig
    \/ ValidationAck

SpecSettings == InitSettings /\ [][NextSettings]_vars

\* the environments of a run: the dry-run flag, the provider, the batch size
RunEnvironments ==
    {[NoEnv EXCEPT !.DRY_RUN = f.dry_run, !.EMAIL_PROVIDER = f.provider,
                   !.BATCH_SIZE = f.batch_size] :
        f \in [dry_run : {<<>>, <<TRUE>>, <<FALSE>>},
               provider : {<<>>, <<"outlook">>},
               batch_size : {<<>>}]}

\* a run: the settings are read from the environment at import, then the
\* command fetches, classifies and acts
InitRun ==
    /\ env \in RunEnvironments
    /\ settings = Settings(env)
    /\ pc = "idle"
    /\ call = NoCall
    /\ bulk = NoBulk
    /\ folders = {}
    /\ createdOk = {}
    /\ actionsService = FALSE
    /\ mutated = FALSE
    /\ mailbox = CleanMailbox
    /\ fetcherService = FALSE
    /\ fetch = NoFetch
    /\ llm \in CleanBackends
    /\ cls = NoCls
    /\ clean = [NoClean EXCEPT !.auto_delete = TRUE, !.threshold = SetMin(Thresholds)]
    /\ iface = NoInterface
    /\ classifier = NoClassifier
    /\ proc = NoProc
    /\ validation = NoValidation
    /\ message = NoMessage

NextRun ==
    \/ NextClean
    \/ NextActions

SpecRun == InitRun /\ [][NextRun]_vars

\* C7: when a page request of fetch_emails fails after a page was fetched, the
\* records accumulated so far, cut to limit, are returned; [] is returned for a
\* failure only when it is the first page request that fails.
C7_PartialPagesReturned ==
    (pc = "fetched" /\ settings.email_provider = "outlook" /\ fetch.failed) =>
        /\ fetch.ret = Truncate(fetch.all_emails, fetch.limit)
        /\ fetch.ret = <<>> => fetch.pages = 0

\* C10: fetch_emails returns at most limit records on both providers.
C10_AtMostLimit ==
    (pc = "fetched" /\ ~fetch.raised) => Len(fetch.ret) <= fetch.limit

C10_Witness ==
    /\ pc = "fetched"
    /\ ~fetch.raised
    /\ fetch.limit >= 2
    /\ fetch.pages >= 2
    /\ Len(fetch.all_emails) > fetch.limit
    /\ Len(fetch.ret) = fetch.limit

(***************************************************************************)
(* Properties of the action executors.                                     *)
(***************************************************************************)
IndividualOps == {"delete_email", "move_email", "mark_as_read", "create_folder"}
BulkOps == {"bulk_delete", "bulk_move"}

Issued(op) == \E k \in 1..Len(call.reqs) : call.reqs[k].op = op

\* C2: while settings.dry_run is set, no request at all (so no mutating one) is
\* issued by any sequence of delete, move, mark-read, create and bulk calls, and
\* every delete / move / mark-read call, alone or inside a bulk loop, returns True.
C2_DryRunIssuesNoRequest ==
    settings.dry_run =>
        /\ ~mutated
        /\ call.reqs = <<>>
        /\ ~call.raised
        /\ (pc = "returned" /\ call.op \in {"delete_email", "move_email", "mark_as_read"})
              => call.ret = "True"
        /\ (pc = "returned" /\ call.op = "create_folder") => Truthy(call.ret)
        /\ \A k \in 1..Len(bulk.attempted) : bulk.results[bulk.attempted[k]] = "True"
        /\ (pc = "returned" /\ call.op \in BulkOps) => bulk.attempted = bulk.ids

C2_Witness ==
    /\ settings.dry_run
    /\ settings.email_provider = "outlook"
    /\ pc = "returned"
    /\ call.op = "bulk_delete"
    /\ Len(bulk.attempted) >= 2

\* C5: bulk_delete and bulk_move return a map keyed by exactly the submitted ids
\* and attempt every id, whatever fails on the way (credentials included).
C5_BulkMapComplete ==
    (pc = "returned" /\ call.op \in BulkOps) =>
        /\ ~call.raised
        /\ Keys(bulk.results) = SeqToSet(bulk.ids)
        /\ bulk.attempted = bulk.ids

\* C6: with dry-run off an individual action call never lets an exception out,
\* and returns False / None when acquiring the token or service, the request
\* or its status fails.
C6_StepFailed ==
    \/ call.auth = "fail" /\ (Issued("graph.token") \/ Issued("gmail.build"))
    \/ call.resp \in {"exc", "404", "500"}

C6_ActionNeverPropagates ==
    (pc = "returned" /\ call.op \in IndividualOps /\ ~settings.dry_run) =>
        /\ ~call.raised
        /\ C6_StepFailed => call.ret \in {"False", "None"}

\* C9: with dry-run off, a second create_folder of a name whose first creation
\* returned success returns success too when the provider answers already-exists.
C9_CreateFolderIdempotent ==
    (/\ pc = "returned"
     /\ call.op = "create_folder"
     /\ ~settings.dry_run
     /\ call.again
     /\ call.resp = "409"
     /\ (Issued("graph.mailfolders.create") \/ Issued("gmail.labels.create")))
        => Truthy(call.ret)

\* C1: a classify_emails_batch call that returns gives exactly one result per
\* submitted email, whatever text the LLM returned
C1_OneResultPerEmail ==
    (pc = "classified" /\ cls.op = "classify_emails_batch" /\ ~cls.raised)
        => Len(cls.results) = Len(cls.emails)

IsFallbackFor(result, email_id) ==
    /\ result.email_id = email_id
    /\ result.category = "UNKNOWN"
    /\ result.confidence = 0
    /\ result.suggested_action = "manual_review"

\* the call behind the recorded classify_email failed: the backend threw, the
\* text holds no JSON object, or the extracted text is no JSON document
SingleCallFailed ==
    LET m == search_object(call_llm(cls.threw, cls.response))
    IN  cls.threw \/ ~m.found \/ ~json_loads(m.text).ok

\* C3: classify_email answers a backend that throws, a response without a JSON
\* object and an extracted text that fails to parse with the fallback: category
\* UNKNOWN, confidence 0.0, action manual_review, the id of the email
C3_FallbackOnFailure ==
    (pc = "classified" /\ cls.op = "classify_email" /\ SingleCallFailed)
        => /\ ~cls.raised
           /\ Len(cls.results) = 1
           /\ IsFallbackFor(cls.results[1], cls.emails[1])

\* a response with braces around text that is no JSON document
C3_Witness ==
    /\ pc = "classified"
    /\ cls.op = "classify_email"
    /\ ~cls.threw
    /\ search_object(cls.response).found
    /\ ~json_loads(search_object(cls.response).text).ok
    /\ IsFallbackFor(cls.results[1], cls.emails[1])

\* the text the batch call got back is malformed: no JSON array in it, an
\* array that does not parse, or an array with an element that is no object
MalformedBatch ==
    LET m == search_array(call_llm(cls.threw, cls.response))
        v == json_loads(m.text)
    IN  \/ ~m.found
        \/ ~v.ok
        \/ \E k \in 1..Len(v.elems) : v.elems[k].kind # "dict"

\* C4: on a malformed batch response _classify_batch turns to classify_email
\* for every email of the batch, and classify_emails_batch raises nothing
C4_MalformedBatchDegrades ==
    /\ (pc = "batch_parsed" /\ MalformedBatch)
           => (cls.how = "individual" /\ ~cls.raised)
    /\ cls.op = "classify_emails_batch" => ~cls.raised

\* C8 as stated: with dry_run on, clean invokes no delete on the executor
C8_DryRunInvokesNoDelete ==
    settings.dry_run => clean.deletes = <<>>

\* C8: with dry_run on, the deletes clean invokes issue no mutating request;
\* in either mode clean invokes delete_email only with --auto-delete given and
\* after the user confirmed
C8_DeletesConfirmedAndDryRunInert ==
    /\ settings.dry_run => ~mutated
    /\ clean.deletes # <<>> => (clean.auto_delete /\ clean.asked /\ clean.confirmed)

C8_Witness ==
    /\ pc = "done"
    /\ settings.dry_run
    /\ clean.confirmed
    /\ clean.deletes # <<>>
    /\ clean.deleted_count = Len(clean.deletes)
    /\ ~mutated

C8_WitnessLive ==
    /\ pc = "done"
    /\ ~settings.dry_run
    /\ clean.confirmed
    /\ clean.deletes # <<>>
    /\ mutated

\* C11: when no request fails, fetch_emails on either provider goes on asking
\* for pages until limit records are there or the provider has no further
\* page, so it returns min(limit, number of matching messages) records
C11_PagesUntilLimitOrEnd ==
    (pc = "fetched" /\ ~fetch.raised /\ ~fetch.failed)
        => Len(fetch.ret) = Min(fetch.limit, Len(mailbox))

\* C12: constructing the facade with a provider name other than gmail or
\* outlook raises before any fetcher or action executor is created; with gmail
\* or outlook it yields the fetcher and the action executor of that provider
C12_FacadeConstruction ==
    iface.done =>
        /\ iface.provider \notin {"gmail", "outlook"}
              => (iface.raised # "none" /\ iface.fetcher = "None" /\ iface.actions = "None")
        /\ iface.provider = "gmail"
              => (iface.raised = "none" /\ iface.fetcher = "GmailFetcher"
                                        /\ iface.actions = "GmailActions")
        /\ iface.provider = "outlook"
              => (iface.raised = "none" /\ iface.fetcher = "EmailFetcher"
                                        /\ iface.actions = "EmailActions")

\* C13: constructing the classifier with a backend name that is unknown or
\* whose backend is unavailable raises; with "auto" it raises when no backend
\* is available; after a construction that raised nothing the active backend
\* is one that reported available
C13_ConstructionRaisesOrAvailable ==
    classifier.done =>
        /\ classifier.arg \notin (LlmNames \cup {"auto"}) => classifier.raised # "none"
        /\ (classifier.arg \in LlmNames /\ classifier.arg \notin settings.available)
              => classifier.raised # "none"
        /\ (classifier.arg = "auto" /\ settings.available = {})
              => classifier.raised # "none"
        /\ classifier.raised = "none"
              => (classifier.active \in settings.available /\ llm = classifier.active)

\* "auto" with a preferred backend that is unavailable falls to the first
\* available one
C13_Witness ==
    /\ classifier.done
    /\ classifier.arg = "auto"
    /\ classifier.preferred \in LlmNames
    /\ classifier.preferred \notin settings.available
    /\ classifier.raised = "none"
    /\ classifier.active \in settings.available

\* C14: every email submitted to classify_email or classify_emails_batch has
\* exactly one returned result under its id, and no returned result carries an
\* email_id that is not the id of a submitted email
C14_ResultsCarrySubmittedIds ==
    (pc = "classified" /\ cls.op \in {"classify_email", "classify_emails_batch"}
                       /\ ~cls.raised)
        => /\ \A k \in 1..Len(cls.emails) :
                 Cardinality({j \in 1..Len(cls.results) :
                                 cls.results[j].email_id = cls.emails[k]}) = 1
           /\ \A j \in 1..Len(cls.results) :
                 cls.results[j].email_id \in SeqToSet(cls.emails)

\* the categories and the actions the prompts name
Categories == {"JUNK", "PROMOTIONAL", "IMPORTANT", "UNKNOWN"}
SuggestedActions == {"delete", "keep_inbox", "move_to_folder"}

\* C15: every result the classifier returns has a category among JUNK,
\* PROMOTIONAL, IMPORTANT, UNKNOWN, whatever category the response names
C15_CategoryInEnum ==
    (pc = "classified" /\ ~cls.raised)
        => \A j \in 1..Len(cls.results) : cls.results[j].category \in Categories

\* C16: every result the classifier returns, fallbacks included, has a
\* suggested_action among delete, keep_inbox, move_to_folder, or none
C16_ActionInEnumOrAbsent ==
    (pc = "classified" /\ ~cls.raised)
        => \A j \in 1..Len(cls.results) :
              cls.results[j].suggested_action \in SuggestedActions \cup {"absent"}

FieldMatch(c, e) ==
    \E keyword \in category_keywords[c] :
        \/ Occurs(keyword, LowerText(e.subject))
        \/ Occurs(keyword, LowerText(e.bodyPreview))
        \/ Occurs(keyword, LowerText(<<e.sender.local, e.sender.domain>>))

FirstMatch(e) ==
    IF \E k \in 1..Len(CategoryOrder) : FieldMatch(CategoryOrder[k], e)
    THEN CategoryOrder[SetMin({k \in 1..Len(CategoryOrder) : FieldMatch(CategoryOrder[k], e)})]
    ELSE "promotional"

\* C18: categorize_by_content puts every email's id in exactly one category,
\* the first of newsletters, notifications, receipts, social, security,
\* promotional with a keyword in the subject, the body preview or the sender
\* address, and promotional when none has one
C18_FirstKeywordMatchWins ==
    (pc = "processed" /\ proc.op = "categorize_by_content")
        => \A k \in 1..Len(proc.emails) : \A c \in SeqToSet(CategoryOrder) :
              (\E j \in 1..Len(proc.result[c]) : proc.result[c][j] = proc.emails[k].id)
                  <=> (c = FirstMatch(proc.emails[k]))

\* the same emails with subject, body preview and sender address lowercased
LowerEmails(emails) ==
    [k \in 1..Len(emails) |->
        [emails[k] EXCEPT !.subject = LowerText(@), !.bodyPreview = LowerText(@),
                          !.sender = [local |-> Lower(@.local), domain |-> Lower(@.domain)]]]

\* C19: changing the letter case of subject, body preview or sender address
\* changes neither the pattern sets of detect_promotional_patterns nor the
\* categories of categorize_by_content
C19_MatchingIgnoresCase ==
    /\ (pc = "processed" /\ proc.op = "categorize_by_content")
          => proc.result = categorize_by_content(LowerEmails(proc.emails))
    /\ (pc = "processed" /\ proc.op = "detect_promotional_patterns")
          => proc.result = detect_promotional_patterns(LowerEmails(proc.emails))

\* the ids of the emails of the sender received more than days_old days ago
OldIdsOf(a) ==
    {proc.emails[k].id : k \in {j \in 1..Len(proc.emails) :
            /\ <<proc.emails[j].sender.local, proc.emails[j].sender.domain>> = a
            /\ proc.emails[j].received.tz # "none"
            /\ proc.emails[j].received.age > proc.days_old}}

\* C20: get_bulk_delete_candidates returns, also for timestamps with the Z
\* suffix, exactly the senders with at least min_sender_count emails older than
\* days_old days, each with the ids of exactly those emails
C20_BulkDeleteCandidates ==
    (pc = "processed" /\ proc.op = "get_bulk_delete_candidates")
        => /\ ~proc.raised
           /\ DOMAIN proc.result
                 = {a \in Addresses(proc.emails) :
                       Cardinality(OldIdsOf(a)) >= proc.min_sender_count}
           /\ \A a \in DOMAIN proc.result :
                 /\ SeqToSet(proc.result[a]) = OldIdsOf(a)
                 /\ Len(proc.result[a]) = Cardinality(OldIdsOf(a))

\* C21: _extract_domain returns 'Unknown' exactly for the strings without '@',
\* and for the others the lowercased text that follows the '@'
C21_ExtractDomain ==
    (pc = "processed" /\ proc.op = "extract_domain")
        => LET email == proc.address
               ats == {k \in 1..Len(email) : email[k] = "@"}
           IN  /\ (proc.result = <<"Unknown">>) <=> (ats = {})
               /\ ats # {} =>
                     \E k \in ats :
                         proc.result = LowerText(SubSeq(email, k + 1, Len(email)))

\* the lowercased sender addresses of the emails that pass the test
SendersWhere(test(_)) ==
    {LowerText(<<proc.emails[k].sender.local, proc.emails[k].sender.domain>>) :
        k \in {j \in 1..Len(proc.emails) : test(proc.emails[j])}}

HasSaleKeyword(e) ==
    \E keyword \in sale_keywords :
        Occurs(keyword, LowerText(e.subject)) \/ Occurs(keyword, LowerText(e.bodyPreview))

HasUnsubscribe(e) == Occurs(<<"unsubscribe">>, LowerText(e.bodyPreview))

IsNoReply(e) ==
    \E w \in {"noreply", "no-reply"} :
        Occurs(<<w>>, LowerText(<<e.sender.local, e.sender.domain>>))

NoKeyConfigured == \A field \in ApiKeyFields : settings[field] = "None"

\* C23: validate_llm_config raises a configuration error when no LLM API key
\* is configured and does not raise once at least one is, every other setting
\* at its default
C23_ValidateLlmConfig ==
    (pc = "validated" /\ validation.op = "validate_llm_config" /\ env.LLM_PROVIDER = <<>>)
        => ((validation.raised # "None") <=> NoKeyConfigured)

\* C24: the dry-run flag is true when the environment does not set it, and no
\* fetch, classify or action step writes the settings or the active backend
C24_ConfigurationImmutable ==
    /\ [](env.DRY_RUN = <<>> => settings.dry_run = TRUE)
    /\ [][settings' = settings /\ llm' = llm]_vars

\* a clean run under the default dry-run flag has fetched, classified and
\* called delete_email
C24_Witness ==
    /\ pc = "done"
    /\ env.DRY_RUN = <<>>
    /\ settings.dry_run
    /\ clean.results # <<>>
    /\ clean.deletes # <<>>

\* the positions of the JSON objects of the recorded response
ObjectsAt == {k \in 1..Len(cls.response) : cls.response[k] \in ObjTokens}

\* the response is a classification object with prose around it; the prose may
\* hold brace characters and further JSON objects
ObjectInProse ==
    /\ ~cls.threw
    /\ ObjectsAt # {}
    /\ Obj[cls.response[SetMin(ObjectsAt)]].category \in Categories
    /\ \A k \in 1..Len(cls.response) : cls.response[k] \in ObjTokens \cup {"w", "{", "}"}

\* C25: when the response holds a valid classification object with prose before
\* or after it, also prose with braces or a second JSON object, classify_email
\* returns the classification of the first JSON object and no fallback
C25_FirstObjectParsed ==
    (pc = "classified" /\ cls.op = "classify_email" /\ ObjectInProse)
        => cls.results[1] = Result(cls.emails[1], Obj[cls.response[SetMin(ObjectsAt)]],
                                   llm, "llm")

\* the contents of the text/plain parts with data, in depth-first order
RECURSIVE PlainTexts(_)
PlainTexts(parts) ==
    IF parts = <<>> THEN <<>>
    ELSE LET part == Head(parts)
             own == IF part.parts # <<>> THEN PlainTexts(part.parts)
                    ELSE IF part.mimeType = "text/plain" /\ part.data # "none"
                         THEN <<b64decode(part.data)>>
                         ELSE <<>>
         IN  own \o PlainTexts(Tail(parts))

\* C26: the body of a Gmail message is the content of the first text/plain part
\* with data in depth-first order over the whole part tree, whatever the
\* nesting of containers, and the empty string only when there is none
C26_FirstPlainTextDepthFirst ==
    (pc = "extracted" /\ message.op = "get_message_details")
        => LET texts == PlainTexts(<<message.payload>>)
           IN  message.body_content = IF texts = <<>> THEN "" ELSE Head(texts)

\* the ids of the emails of this run whose classification is the fallback
FellBack ==
    {clean.results[k].email_id :
        k \in {j \in 1..Len(clean.results) :
                  IsFallbackFor(clean.results[j], clean.results[j].email_id)}}

\* C27: clean invokes delete_email only for results of category JUNK with a
\* confidence of at least the threshold, only with --auto-delete and after the
\* user confirmed; an email whose classification fell back to UNKNOWN / 0.0 is
\* never deleted
C27_OnlyHighConfidenceJunkDeleted ==
    /\ clean.deletes # <<>> => (clean.auto_delete /\ clean.confirmed)
    /\ \A d \in 1..Len(clean.deletes) :
          \E k \in 1..Len(clean.results) :
             /\ clean.results[k].email_id = clean.deletes[d]
             /\ clean.results[k].category = "JUNK"
             /\ clean.results[k].confidence >= clean.threshold
    /\ \A d \in 1..Len(clean.deletes) : clean.deletes[d] \notin FellBack

\* C28: every id clean passes to delete_email is the id of an email fetched in
\* this run whose own result is JUNK with a confidence of at least the
\* threshold, on per-email and on batch-prompted backends alike
C28_DeletesOnlyFetchedJunk ==
    \A d \in 1..Len(clean.deletes) :
        \E k \in 1..Len(clean.emails) :
           /\ clean.emails[k] = clean.deletes[d]
           /\ k <= Len(clean.results)
           /\ clean.results[k].email_id = clean.emails[k]
           /\ IsHighConfidenceJunk(clean.results[k], clean.threshold)

PermanentDeleteOps == {"graph.messages.delete", "gmail.messages.delete"}

\* the request is a move to the trash (Gmail) or to Deleted Items (Graph)
IsTrashRequest(req) ==
    \/ req.op = "gmail.messages.trash"
    \/ req.op = "graph.messages.move" /\ req.dest = "deleteditems"

\* C29: a delete with permanent=False (the default, and the form clean uses)
\* issues no permanent-delete request, only a move to the trash / to Deleted
\* Items; a permanent-delete request is issued only under permanent=True
C29_DefaultDeleteMovesToTrash ==
    /\ \A k \in 1..Len(call.reqs) :
          /\ call.reqs[k].op \in PermanentDeleteOps
                => (call.op \in {"delete_email", "bulk_delete"} /\ call.permanent)
          /\ (call.op \in {"delete_email", "bulk_delete"} /\ ~call.permanent
                 /\ call.reqs[k].op \in MutatingOps)
                => IsTrashRequest(call.reqs[k])
    /\ \A k \in 1..Len(clean.reqs) :
          clean.reqs[k].op \in MutatingOps => IsTrashRequest(clean.reqs[k])

\* a bulk_delete under the default has moved two messages to the trash
C29_Witness ==
    /\ pc = "returned"
    /\ call.op = "bulk_delete"
    /\ ~call.permanent
    /\ Cardinality({k \in 1..Len(call.reqs) : IsTrashRequest(call.reqs[k])}) >= 2

\* C30: classify_emails_batch preserves the order of its input: the i-th result
\* carries the id of the i-th email, across the chunks, on per-email and on
\* batch-prompted backends
C30_ResultsInInputOrder ==
    (pc = "classified" /\ cls.op = "classify_emails_batch" /\ ~cls.raised)
        => /\ Len(cls.results) = Len(cls.emails)
           /\ \A i \in 1..Len(cls.emails) : cls.results[i].email_id = cls.emails[i]

====
